---- MODULE Spec2Model ----
(***************************************************************************)
(* Verification model of the tool policy and permission enforcement core   *)
(* of lit-agentWallet.                                                     *)
(*                                                                         *)
(*   Part I   PKPToolPolicyParameterFacet.sol: the ledger-side parameter   *)
(*            store (specification Spec).                                  *)
(*   Part II  LitAgent.executeTool in agent.ts: the execution pipeline     *)
(*            (specification ExecSpec).                                    *)
(*   Part III setToolPolicy / removeToolPolicy in full-self-signing       *)
(*            index.ts: the registry mutations (specification RegSpec).    *)
(*   Part IV  handleUnpermitToolForDelegatee and handleDisableToolPolicy   *)
(*            of aw-cli: the admin flows (specification CliSpec).          *)
(***************************************************************************)
EXTENDS Integers, Sequences, FiniteSets, TLC

(***************************************************************************)
(* Bounds of the model.                                                    *)
(***************************************************************************)
MaxCalls == 2        \* calls made on the facet in one behaviour

(***************************************************************************)
(* Universes.  Addresses are small integers, 0 is address(0).  Bytes values *)
(* are small integers, 0 is the empty byte string (length 0), which is what *)
(* a Solidity mapping returns for a key that was never written or deleted.  *)
(* There is one PKP, owned by address 1; tool 1 is registered under it and  *)
(* tool 2 is not; the delegatees are address(0) and two real addresses.     *)
(***************************************************************************)
ZeroAddress == 0
EmptyBytes  == 0
PKPs        == {1}
Tools       == {1, 2}
Senders     == {1, 2}
Delegatees  == {ZeroAddress, 1, 2}
Names       == {1, 2}
Values      == {EmptyBytes, 1}
Keys        == PKPs \X Tools \X Delegatees
MaxBatch    == Cardinality(Names)   \* longest array handed to a batch call

SeqsUpTo(S, n) == UNION {[1..k -> S] : k \in 0..n}

VARIABLES
    policyParameterNames,   \* Keys -> Seq(Names)     toolInfo.policyParameterNames[delegatee]
    policyParameters,       \* Keys -> [Names -> Values] toolInfo.policyParameters[delegatee][name]
    registeredTools,        \* PKPs -> SUBSET Tools   tools registered under each PKP
    lastCall,               \* the last call made on the facet, the storage it found
                            \* and how it ended
    ncalls,                 \* number of calls made so far
    removal                 \* one removal applied to a longer name list: the list
                            \* and values it found, the name, and the transaction

storeVars == <<policyParameterNames, policyParameters, registeredTools, lastCall, ncalls,
               removal>>

\* the variables of Part II (LitAgent.executeTool)
VARIABLES
    pc,               \* where the invocation stands
    options,          \* which optional callbacks the caller supplied
    calls,            \* the collaborators invoked so far, in order
    raised,           \* the failures raised so far: <<stage, thrown value>>
    permission,       \* how handleToolPermission ended
    finalParams,      \* result of validateAndCollectParameters
    decodedPolicy,    \* decodedPolicy (line 122)
    validatedParams,  \* validatedParams (line 142)
    pendingError,     \* the validation error handed to failedPolicyCallback
    executedParams,   \* the parameters handed to executeAction
    result,           \* the raw result of executeAction
    outcome           \* what executeTool returned or threw

execVars == <<pc, options, calls, raised, permission, finalParams, decodedPolicy,
              validatedParams, pendingError, executedParams, result, outcome>>

\* the variables of Part III (setToolPolicy / removeToolPolicy)
VARIABLES
    txPc,             \* where the registry mutation stands
    txCall,           \* the call: which function, tool id, policy payload
    gasEstimate,      \* <<estimate>> once provider.estimateGas returned
    gasLimit,         \* <<limit>> once finalTx was built
    txCause,          \* <<step, thrown value>> once a step failed
    txOutcome,        \* what the function returned or threw
    txTrace           \* the calls made on the provider and on signCallback

regVars == <<txPc, txCall, gasEstimate, gasLimit, txCause, txOutcome, txTrace>>

\* the variables of Part IV (the admin handlers of the command line)
VARIABLES
    cliPc,            \* where the handler stands
    cliFlow,          \* which handler runs
    cliRegistered,    \* registeredTools as the handler holds it
    cliFetched,       \* registeredTools as getRegisteredToolsAndDelegateesForPkp
                      \* returned it
    cliDelegatee,     \* the delegatee the user selected
    cliPermitted,     \* <<permitted tools of that delegatee>> once queried
    cliTool,          \* the tool the user selected
    cliEvents,        \* queries, prompts, ledger calls and log lines, in order
    cliOutcome        \* how the handler ended

cliVars == <<cliPc, cliFlow, cliRegistered, cliFetched, cliDelegatee, cliPermitted, cliTool,
             cliEvents, cliOutcome>>

(***************************************************************************)
(* PKPToolPolicyBase: ownership and tool registration.                     *)
(***************************************************************************)
\* owner of the PKP NFT: PKP p is owned by address p
PKPOwner(pkp) == pkp

\* modifier onlyPKPOwner(pkpTokenId): msg.sender must own the PKP
onlyPKPOwner(sender, pkp) == sender = PKPOwner(pkp)

\* _verifyToolRegistered(pkpTokenId, toolIpfsCid)
verifyToolRegistered(reg, pkp, tool) == tool \in reg[pkp]

(***************************************************************************)
(* A transaction in progress: the working copy of storage, the events      *)
(* emitted so far, whether it reverted, and how many single-item function  *)
(* bodies were entered (after their modifier passed).  A reverted          *)
(* transaction persists nothing.                                           *)
(***************************************************************************)
Tx(pnames, pvalues) ==
    [names |-> pnames, values |-> pvalues, events |-> <<>>,
     reverted |-> FALSE, err |-> "", entered |-> 0, ret |-> <<>>]

Revert(tx, e) == [tx EXCEPT !.reverted = TRUE, !.err = e]

\* the loop of lines 72-78 / 114-124: index of the first entry equal to name,
\* 0 when there is none (keccak256 equality of the two strings)
RECURSIVE ScanFrom(_, _, _)
ScanFrom(list, name, i) ==
    IF i > Len(list) THEN 0
    ELSE IF list[i] = name THEN i
    ELSE ScanFrom(list, name, i + 1)

IndexOfName(list, name) == ScanFrom(list, name, 1)

\* lines 69-81: register the name if not already registered
RegisterNameAlways(list, name) == Append(list, name)

RegisterName(list, name) ==
    IF IndexOfName(list, name) = 0 THEN Append(list, name) ELSE list

\* lines 112-124: swap-with-last removal of the first match
UnregisterNameKeepsOrder(list, name) ==
    LET i == IndexOfName(list, name)
    IN  IF i = 0 THEN list
        ELSE SubSeq(list, 1, i - 1) \o SubSeq(list, i + 1, Len(list))

UnregisterNamePopLast(list, name) ==
    IF Len(list) = 0 THEN list ELSE SubSeq(list, 1, Len(list) - 1)

UnregisterName(list, name) ==
    LET i == IndexOfName(list, name)
        n == Len(list)
    IN  IF i = 0 THEN list
        ELSE LET moved == IF i # n THEN [list EXCEPT ![i] = list[n]] ELSE list
             IN  SubSeq(moved, 1, n - 1)

\* setToolPolicyParameterForDelegatee, lines 56-93
SetNoOwnerCheck(tx, reg, sender, pkp, tool, delegatee, name, value) ==
    IF tx.reverted THEN tx
    ELSE LET t == [tx EXCEPT !.entered = @ + 1]
             k == <<pkp, tool, delegatee>>
         IN  IF delegatee = ZeroAddress THEN Revert(t, "InvalidDelegatee")
             ELSE IF ~verifyToolRegistered(reg, pkp, tool) THEN Revert(t, "ToolNotFound")
             ELSE [t EXCEPT
                     !.names[k]  = RegisterName(@, name),
                     !.values[k] = [@ EXCEPT ![name] = value],
                     !.events    = Append(@, <<"PolicyParameterSet", pkp, tool,
                                               delegatee, name, value>>)]

setToolPolicyParameterForDelegatee(tx, reg, sender, pkp, tool, delegatee, name, value) ==
    IF tx.reverted THEN tx
    ELSE LET t == [tx EXCEPT !.entered = @ + 1]
             k == <<pkp, tool, delegatee>>
         IN  IF ~onlyPKPOwner(sender, pkp) THEN Revert(tx, "NotPKPOwner")
             ELSE IF delegatee = ZeroAddress THEN Revert(t, "InvalidDelegatee")
             ELSE IF ~verifyToolRegistered(reg, pkp, tool) THEN Revert(t, "ToolNotFound")
             ELSE [t EXCEPT
                     !.names[k]  = RegisterName(@, name),
                     !.values[k] = [@ EXCEPT ![name] = value],
                     !.events    = Append(@, <<"PolicyParameterSet", pkp, tool,
                                               delegatee, name, value>>)]

\* removeToolPolicyParameterForDelegatee, lines 100-135
RemoveForEveryDelegatee(tx, reg, sender, pkp, tool, delegatee, name) ==
    IF tx.reverted THEN tx
    ELSE LET t == [tx EXCEPT !.entered = @ + 1]
         IN  IF ~onlyPKPOwner(sender, pkp) THEN Revert(tx, "NotPKPOwner")
             ELSE IF delegatee = ZeroAddress THEN Revert(t, "InvalidDelegatee")
             ELSE IF ~verifyToolRegistered(reg, pkp, tool) THEN Revert(t, "ToolNotFound")
             ELSE [t EXCEPT
                     !.names  = [k \in Keys |->
                                   IF k[1] = pkp /\ k[2] = tool
                                   THEN UnregisterName(t.names[k], name) ELSE t.names[k]],
                     !.values = [k \in Keys |->
                                   IF k[1] = pkp /\ k[2] = tool
                                   THEN [t.values[k] EXCEPT ![name] = EmptyBytes]
                                   ELSE t.values[k]],
                     !.events = Append(@, <<"PolicyParameterRemoved", pkp, tool,
                                            delegatee, name>>)]

removeToolPolicyParameterForDelegatee(tx, reg, sender, pkp, tool, delegatee, name) ==
    IF tx.reverted THEN tx
    ELSE LET t == [tx EXCEPT !.entered = @ + 1]
             k == <<pkp, tool, delegatee>>
         IN  IF ~onlyPKPOwner(sender, pkp) THEN Revert(tx, "NotPKPOwner")
             ELSE IF delegatee = ZeroAddress THEN Revert(t, "InvalidDelegatee")
             ELSE IF ~verifyToolRegistered(reg, pkp, tool) THEN Revert(t, "ToolNotFound")
             ELSE [t EXCEPT
                     !.names[k]  = UnregisterName(@, name),
                     !.values[k] = [@ EXCEPT ![name] = EmptyBytes],
                     !.events    = Append(@, <<"PolicyParameterRemoved", pkp, tool,
                                               delegatee, name>>)]

\* the loop of lines 154-163
RECURSIVE SetLoopLastFirst(_, _, _, _, _, _, _, _, _)
SetLoopLastFirst(tx, reg, sender, pkp, tool, delegatee, names, values, i) ==
    IF i > Len(names) \/ tx.reverted THEN tx
    ELSE IF Len(names) + 1 - i > Len(values) THEN Revert(tx, "Panic")
    ELSE SetLoopLastFirst(setToolPolicyParameterForDelegatee(tx, reg, sender, pkp, tool,
                              delegatee, names[Len(names) + 1 - i],
                              values[Len(names) + 1 - i]),
                          reg, sender, pkp, tool, delegatee, names, values, i + 1)

RECURSIVE SetLoop(_, _, _, _, _, _, _, _, _)
SetLoop(tx, reg, sender, pkp, tool, delegatee, names, values, i) ==
    IF i > Len(names) \/ tx.reverted THEN tx
    ELSE IF i > Len(values) THEN Revert(tx, "Panic")     \* index out of bounds
    ELSE SetLoop(setToolPolicyParameterForDelegatee(tx, reg, sender, pkp, tool,
                                                    delegatee, names[i], values[i]),
                 reg, sender, pkp, tool, delegatee, names, values, i + 1)

\* the loop of lines 177-185
RECURSIVE RemoveLoop(_, _, _, _, _, _, _, _)
RemoveLoop(tx, reg, sender, pkp, tool, delegatee, names, i) ==
    IF i > Len(names) \/ tx.reverted THEN tx
    ELSE RemoveLoop(removeToolPolicyParameterForDelegatee(tx, reg, sender, pkp, tool,
                                                          delegatee, names[i]),
                    reg, sender, pkp, tool, delegatee, names, i + 1)

\* batchSetToolPolicyParametersForDelegatee, lines 143-164
BatchSetLateLengthCheck(tx, reg, sender, pkp, tool, delegatee, names, values) ==
    IF ~onlyPKPOwner(sender, pkp) THEN Revert(tx, "NotPKPOwner")
    ELSE LET done == SetLoop(tx, reg, sender, pkp, tool, delegatee, names, values, 1)
         IN  IF done.reverted THEN done
             ELSE IF Len(names) # Len(values) THEN Revert(done, "ArrayLengthMismatch")
             ELSE done

batchSetToolPolicyParametersForDelegatee(tx, reg, sender, pkp, tool, delegatee, names, values) ==
    IF ~onlyPKPOwner(sender, pkp) THEN Revert(tx, "NotPKPOwner")
    ELSE IF Len(names) # Len(values) THEN Revert(tx, "ArrayLengthMismatch")
    ELSE SetLoop(tx, reg, sender, pkp, tool, delegatee, names, values, 1)

\* batchRemoveToolPolicyParametersForDelegatee, lines 171-186
batchRemoveToolPolicyParametersForDelegatee(tx, reg, sender, pkp, tool, delegatee, names) ==
    IF ~onlyPKPOwner(sender, pkp) THEN Revert(tx, "NotPKPOwner")
    ELSE RemoveLoop(tx, reg, sender, pkp, tool, delegatee, names, 1)

\* getToolPolicyParameterForDelegatee, lines 36-48 (external view, no modifier:
\* msg.sender is not consulted)
GetParameterOwnerOnly(tx, reg, sender, pkp, tool, delegatee, name) ==
    IF ~onlyPKPOwner(sender, pkp) THEN Revert(tx, "NotPKPOwner")
    ELSE IF delegatee = ZeroAddress THEN Revert(tx, "InvalidDelegatee")
    ELSE IF ~verifyToolRegistered(reg, pkp, tool) THEN Revert(tx, "ToolNotFound")
    ELSE [tx EXCEPT !.ret = <<tx.values[<<pkp, tool, delegatee>>][name]>>]

getToolPolicyParameterForDelegatee(tx, reg, sender, pkp, tool, delegatee, name) ==
    IF delegatee = ZeroAddress THEN Revert(tx, "InvalidDelegatee")
    ELSE IF ~verifyToolRegistered(reg, pkp, tool) THEN Revert(tx, "ToolNotFound")
    ELSE [tx EXCEPT !.ret = <<tx.values[<<pkp, tool, delegatee>>][name]>>]

\* getToolPolicyParameterNamesForDelegatee, lines 17-28 (external view, no modifier)
getToolPolicyParameterNamesForDelegatee(tx, reg, sender, pkp, tool, delegatee) ==
    IF delegatee = ZeroAddress THEN Revert(tx, "InvalidDelegatee")
    ELSE IF ~verifyToolRegistered(reg, pkp, tool) THEN Revert(tx, "ToolNotFound")
    ELSE [tx EXCEPT !.ret = tx.names[<<pkp, tool, delegatee>>]]

(***************************************************************************)
(* The facet as a state machine: one action per external function.  The    *)
(* ledger applies a call atomically: a reverted call persists nothing.     *)
(***************************************************************************)
NoCall ==
    [op |-> "none", sender |-> 0, pkp |-> 0, tool |-> 0, delegatee |-> 0,
     names |-> <<>>, values |-> <<>>, ok |-> TRUE, err |-> "", entered |-> 0,
     events |-> <<>>, ret |-> <<>>,
     preNames |-> [k \in Keys |-> <<>>],
     preValues |-> [k \in Keys |-> [n \in Names |-> EmptyBytes]]]

\* no removal was applied yet
NoRemoval == [done |-> FALSE, list |-> <<>>, values |-> <<>>, name |-> 0, tx |-> <<>>]

StoreInit ==
    /\ policyParameterNames = [k \in Keys |-> <<>>]
    /\ policyParameters = [k \in Keys |-> [n \in Names |-> EmptyBytes]]
    /\ registeredTools = [p \in PKPs |-> {1}]
    /\ lastCall = NoCall
    /\ ncalls = 0
    /\ removal = NoRemoval

\* the state after a call that ran to tx: storage is written only if it did
\* not revert; registration of tools is never written by this facet
Finish(op, sender, pkp, tool, delegatee, names, values, tx) ==
    /\ ncalls' = ncalls + 1
    /\ policyParameterNames' = IF tx.reverted THEN policyParameterNames ELSE tx.names
    /\ policyParameters' = IF tx.reverted THEN policyParameters ELSE tx.values
    /\ registeredTools' = registeredTools
    /\ removal' = removal
    /\ UNCHANGED <<execVars, regVars, cliVars>>
    /\ lastCall' = [op |-> op, sender |-> sender, pkp |-> pkp, tool |-> tool,
                    delegatee |-> delegatee, names |-> names, values |-> values,
                    ok |-> ~tx.reverted, err |-> tx.err, entered |-> tx.entered,
                    events |-> IF tx.reverted THEN <<>> ELSE tx.events,
                    ret |-> IF tx.reverted THEN <<>> ELSE tx.ret,
                    preNames |-> policyParameterNames,
                    preValues |-> policyParameters]

Begin == Tx(policyParameterNames, policyParameters)

\* the calls that write storage
Mutating == {"set", "remove", "batchSet", "batchRemove"}

\* A further call is explored after the initial state and after every call
\* that succeeded and could write.  A call that reverted or only read left
\* storage exactly as it found it (Finish), so whatever can follow it can
\* follow the state before it.
CanCall ==
    /\ ncalls < MaxCalls
    /\ lastCall.op = "none" \/ (lastCall.ok /\ lastCall.op \in Mutating)

SetParameter ==
    /\ CanCall
    /\ \E sender \in Senders, pkp \in PKPs, tool \in Tools, delegatee \in Delegatees,
          name \in Names, value \in Values :
            Finish("set", sender, pkp, tool, delegatee, <<name>>, <<value>>,
                   setToolPolicyParameterForDelegatee(Begin, registeredTools, sender,
                                                      pkp, tool, delegatee, name, value))

RemoveParameter ==
    /\ CanCall
    /\ \E sender \in Senders, pkp \in PKPs, tool \in Tools, delegatee \in Delegatees,
          name \in Names :
            Finish("remove", sender, pkp, tool, delegatee, <<name>>, <<>>,
                   removeToolPolicyParameterForDelegatee(Begin, registeredTools, sender,
                                                         pkp, tool, delegatee, name))

BatchSetParameters ==
    /\ CanCall
    /\ \E sender \in Senders, pkp \in PKPs, tool \in Tools, delegatee \in Delegatees,
          names \in SeqsUpTo(Names, MaxBatch), values \in SeqsUpTo(Values, MaxBatch) :
            Finish("batchSet", sender, pkp, tool, delegatee, names, values,
                   batchSetToolPolicyParametersForDelegatee(Begin, registeredTools, sender,
                                                            pkp, tool, delegatee, names, values))

BatchRemoveParameters ==
    /\ CanCall
    /\ \E sender \in Senders, pkp \in PKPs, tool \in Tools, delegatee \in Delegatees,
          names \in SeqsUpTo(Names, MaxBatch) :
            Finish("batchRemove", sender, pkp, tool, delegatee, names, <<>>,
                   batchRemoveToolPolicyParametersForDelegatee(Begin, registeredTools, sender,
                                                               pkp, tool, delegatee, names))

GetParameter ==
    /\ CanCall
    /\ \E sender \in Senders, pkp \in PKPs, tool \in Tools, delegatee \in Delegatees,
          name \in Names :
            Finish("get", sender, pkp, tool, delegatee, <<name>>, <<>>,
                   getToolPolicyParameterForDelegatee(Begin, registeredTools, sender,
                                                      pkp, tool, delegatee, name))

GetParameterNames ==
    /\ CanCall
    /\ \E sender \in Senders, pkp \in PKPs, tool \in Tools, delegatee \in Delegatees :
            Finish("getNames", sender, pkp, tool, delegatee, <<>>, <<>>,
                   getToolPolicyParameterNamesForDelegatee(Begin, registeredTools, sender,
                                                           pkp, tool, delegatee))

(***************************************************************************)
(* removeToolPolicyParameterForDelegatee applied to name lists longer than *)
(* the calls above build, so that a removal in the middle of a list has    *)
(* entries before and after it.  The storage found is one the facet can    *)
(* produce: no name listed twice, no value stored for a name not listed.   *)
(***************************************************************************)
MaxListLen == 4   \* longest name list a removal is applied to

ListNames == 1..MaxListLen

\* the name lists the facet can hold: setToolPolicyParameterForDelegatee
\* appends a name only when the scan did not find it
NameLists ==
    {l \in SeqsUpTo(ListNames, MaxListLen) :
        \A i \in 1..Len(l), j \in 1..Len(l) : l[i] = l[j] => i = j}

\* the values the facet can hold next to list: a removal deletes the value
ValuesFor(list) ==
    {v \in [ListNames -> Values] :
        \A n \in ListNames : (\A i \in 1..Len(list) : list[i] # n) => v[n] = EmptyBytes}

\* the triple the removal is made on, by the owner of the PKP
RemovalKey == <<1, 1, 1>>

\* storage holding list and values under RemovalKey and nothing elsewhere
StorageWith(list, values) ==
    Tx([k \in Keys |-> IF k = RemovalKey THEN list ELSE <<>>],
       [k \in Keys |-> IF k = RemovalKey THEN values
                       ELSE [n \in ListNames |-> EmptyBytes]])

ApplyRemoval ==
    /\ ~removal.done
    /\ \E list \in NameLists, name \in ListNames :
          \E values \in ValuesFor(list) :
             removal' = [done |-> TRUE, list |-> list, values |-> values, name |-> name,
                         tx |-> removeToolPolicyParameterForDelegatee(
                                   StorageWith(list, values), registeredTools,
                                   PKPOwner(RemovalKey[1]), RemovalKey[1], RemovalKey[2],
                                   RemovalKey[3], name)]
    /\ UNCHANGED <<policyParameterNames, policyParameters, registeredTools, lastCall, ncalls>>
    /\ UNCHANGED <<execVars, regVars, cliVars>>

StoreNext ==
    \/ SetParameter
    \/ RemoveParameter
    \/ BatchSetParameters
    \/ BatchRemoveParameters
    \/ GetParameter
    \/ GetParameterNames

(***************************************************************************)
(* Part II.  LitAgent.executeTool (agent.ts, lines 51-243).                *)
(*                                                                         *)
(* One invocation runs through its stages in order; every await is a step. *)
(* What the collaborators return or throw is chosen by the environment.    *)
(***************************************************************************)
MaxLogLen == 2       \* longest logs text, in tokens

\* thrown values: a LitAgentError of some type, a plain Error, or a value that
\* is not an Error at all
PermissionDenied == "Permission denied by user"
NotInitialized   == "Tool policy manager not initialized"
ThrowMessages    == {PermissionDenied, NotInitialized, "boom"}
ErrorTypes       == {"TOOL_PERMISSION_FAILED", "TOOL_POLICY_REGISTRATION_FAILED",
                     "TOOL_PARAMETER_FAILED"}

LitAgentError(type, message) ==
    [tagged |-> TRUE, isError |-> TRUE, type |-> type, message |-> message]
PlainError(message) ==
    [tagged |-> FALSE, isError |-> TRUE, type |-> "Error", message |-> message]
NonError(message) ==
    [tagged |-> FALSE, isError |-> FALSE, type |-> "value", message |-> message]
NoError == [tagged |-> FALSE, isError |-> FALSE, type |-> "none", message |-> ""]

Throwables ==
    {LitAgentError(t, m) : t \in ErrorTypes, m \in ThrowMessages}
        \cup {PlainError(m) : m \in ThrowMessages}
        \cup {NonError(m) : m \in ThrowMessages}

Params   == {"p1", "p2"}
NoPolicy == "null"
Policies == {"allowP1", "allowNone"}

\* validateParamsAgainstPolicy(tool, params, policy) passes
PolicyAllows(policy, params) == policy = "allowP1" /\ params = "p1"

\* the raw result of executeAction: response and logs
Absent == [present |-> FALSE, truthy |-> FALSE, text |-> "undefined"]
Field(text, truthy) == [present |-> TRUE, truthy |-> truthy, text |-> text]

ReasonFields == {Absent, Field("", FALSE), Field("x", TRUE)}
CodeFields   == {Absent, Field("0", FALSE), Field("42", TRUE)}
EmsgFields   == {Absent, Field("m", TRUE)}
ErrorFields  == {Absent, Field("bad input", TRUE)}

Response(kind, status, error, hasDetails, reason, code, emsg) ==
    [kind |-> kind, status |-> status, error |-> error, hasDetails |-> hasDetails,
     reason |-> reason, code |-> code, emsg |-> emsg]

Responses ==
    {Response(k, "none", Absent, FALSE, Absent, Absent, Absent) :
         k \in {"empty", "text", "jsonNull"}}
      \cup {Response("json", "success", Absent, FALSE, Absent, Absent, Absent)}
      \cup {Response("json", "error", e, FALSE, Absent, Absent, Absent) : e \in ErrorFields}
      \cup {Response("json", "error", e, TRUE, r, c, m) :
               e \in ErrorFields, r \in ReasonFields, c \in CodeFields, m \in EmsgFields}

LogTokens == {"Error:", "\n", " ", "oops"}
Logs      == SeqsUpTo(LogTokens, MaxLogLen)
Results   == [response : Responses, logs : Logs]
NoResult  == [response |-> Response("empty", "none", Absent, FALSE, Absent, Absent, Absent),
              logs |-> <<>>]

NoOutcome == [kind |-> "none", success |-> FALSE, reason |-> <<>>, hasResult |-> FALSE,
              errType |-> "none", original |-> NoError]

Returned(success, reason, hasResult) ==
    [kind |-> "returned", success |-> success, reason |-> reason,
     hasResult |-> hasResult, errType |-> "none", original |-> NoError]

Thrown(type, message, original) ==
    [kind |-> "thrown", success |-> FALSE, reason |-> <<message>>, hasResult |-> FALSE,
     errType |-> type, original |-> original]

\* the outer catch, lines 230-242
BoundaryReturnsAll(e) == Returned(FALSE, <<e.message>>, FALSE)

Boundary(e) ==
    IF e.tagged THEN Returned(FALSE, <<e.message>>, FALSE)
    ELSE Thrown("TOOL_EXECUTION_FAILED",
                IF e.isError THEN e.message ELSE "Failed to execute tool", e)

\* the catch around handleToolPermission, lines 88-112: what executeTool does
\* with a value thrown by the permission stage
PermissionCatchIgnores(e) == NoOutcome

PermissionCatchSkipsRegistrationFailure(e) ==
    IF e.tagged /\ e.type = "TOOL_PERMISSION_FAILED" /\ e.message = PermissionDenied
    THEN Returned(FALSE, <<e.message>>, FALSE)
    ELSE IF e.tagged /\ e.type = "TOOL_POLICY_REGISTRATION_FAILED"
    THEN NoOutcome
    ELSE Boundary(e)

PermissionCatch(e) ==
    IF e.tagged /\ e.type = "TOOL_PERMISSION_FAILED" /\ e.message = PermissionDenied
    THEN Returned(FALSE, <<e.message>>, FALSE)
    ELSE IF e.tagged /\ e.type = "TOOL_POLICY_REGISTRATION_FAILED"
    THEN Returned(FALSE, <<e.message>>, FALSE)
    ELSE Boundary(e)

\* the catch around the policy read, lines 129-139: TRUE when the value is
\* swallowed, FALSE when it is thrown again
PolicyCatchSwallowsAll(e) == TRUE

PolicyCatchSwallows(e) == e.isError /\ e.message = NotInitialized

\* the error thrown at lines 162-166 and 169-175
ValidationFailed(e) ==
    LitAgentError("TOOL_VALIDATION_FAILED",
                  IF e.isError THEN e.message
                  ELSE "Parameters do not meet policy requirements")

\* handleToolPermission (utils/permission): the caller already has permission,
\* or permissionCallback declines, or it accepts and the policy is registered,
\* or the registration fails (setToolPolicy, full-self-signing index.ts 88-94)
PermissionEndings == {"permitted", "declined", "registered", "registrationFailed"}

handleToolPermission(ending) ==
    CASE ending = "permitted"  -> [threw |-> FALSE, txHash |-> FALSE, err |-> NoError]
      [] ending = "registered" -> [threw |-> FALSE, txHash |-> TRUE, err |-> NoError]
      [] ending = "declined"   ->
            [threw |-> TRUE, txHash |-> FALSE,
             err |-> LitAgentError("TOOL_PERMISSION_FAILED", PermissionDenied)]
      [] ending = "registrationFailed" ->
            [threw |-> TRUE, txHash |-> FALSE,
             err |-> LitAgentError("TOOL_POLICY_REGISTRATION_FAILED",
                                   "Failed to register policy")]

ExecInit ==
    /\ pc = "Idle"
    /\ options = [failedPolicyCallback |-> FALSE, onPolicyRegistered |-> FALSE]
    /\ calls = <<>>
    /\ raised = <<>>
    /\ permission = "none"
    /\ finalParams = "none"
    /\ decodedPolicy = NoPolicy
    /\ validatedParams = "none"
    /\ pendingError = NoError
    /\ executedParams = "none"
    /\ result = NoResult
    /\ outcome = NoOutcome

\* the invocation ends with outcome o
End(o) == pc' = "Done" /\ outcome' = o

\* a collaborator named c threw e
Raise(c, e) == raised' = Append(raised, <<c, e>>)

\* executeTool is called (line 51)
Invoke ==
    /\ pc = "Idle"
    /\ UNCHANGED <<storeVars, regVars, cliVars>>
    /\ \E f \in BOOLEAN, r \in BOOLEAN :
          options' = [failedPolicyCallback |-> f, onPolicyRegistered |-> r]
    /\ pc' = "findTool"
    /\ UNCHANGED <<calls, raised, permission, finalParams, decodedPolicy, validatedParams,
                   pendingError, executedParams, result, outcome>>

\* line 75
FindTool ==
    /\ pc = "findTool"
    /\ UNCHANGED <<storeVars, regVars, cliVars>>
    /\ calls' = Append(calls, "findTool")
    /\ \/ /\ pc' = "permission"
          /\ UNCHANGED <<raised, outcome>>
       \/ \E e \in Throwables : Raise("findTool", e) /\ End(Boundary(e))
    /\ UNCHANGED <<options, permission, finalParams, decodedPolicy, validatedParams,
                   pendingError, executedParams, result>>

\* lines 79-87: onPolicyRegistered is invoked when handleToolPermission
\* returned a transaction hash and the callback was supplied
NotifyWithoutHash(r) == options.onPolicyRegistered

ShouldNotify(r) == ~r.threw /\ r.txHash /\ options.onPolicyRegistered

\* what lines 78-112 do once handleToolPermission ended with r; cbThrows is
\* the value onPolicyRegistered throws, NoError when it returns
AfterPermission(ending, r, cbThrows) ==
    LET notify == ShouldNotify(r)
        e      == IF r.threw THEN r.err ELSE cbThrows
        failed == r.threw \/ (notify /\ cbThrows # NoError)
        o      == IF failed THEN PermissionCatch(e) ELSE NoOutcome
    IN  /\ permission' = ending
        /\ calls' = IF notify
                    THEN calls \o <<"handleToolPermission", "onPolicyRegistered">>
                    ELSE Append(calls, "handleToolPermission")
        /\ raised' = IF r.threw THEN Append(raised, <<"handleToolPermission", e>>)
                     ELSE IF failed THEN Append(raised, <<"onPolicyRegistered", e>>)
                     ELSE raised
        /\ IF o.kind = "none"
           THEN pc' = "collect" /\ outcome' = outcome
           ELSE End(o)

\* lines 77-112
HandlePermission ==
    /\ pc = "permission"
    /\ UNCHANGED <<storeVars, regVars, cliVars>>
    /\ \/ \E ending \in PermissionEndings, cb \in {NoError} \cup Throwables :
             AfterPermission(ending, handleToolPermission(ending), cb)
       \/ \E e \in Throwables :
             AfterPermission("threw", [threw |-> TRUE, txHash |-> FALSE, err |-> e], NoError)
    /\ UNCHANGED <<options, finalParams, decodedPolicy, validatedParams, pendingError,
                   executedParams, result>>

\* lines 114-119
CollectParameters ==
    /\ pc = "collect"
    /\ UNCHANGED <<storeVars, regVars, cliVars>>
    /\ calls' = Append(calls, "validateAndCollectParameters")
    /\ \/ /\ \E p \in Params : finalParams' = p
          /\ pc' = "policy"
          /\ UNCHANGED <<raised, outcome>>
       \/ /\ \E e \in Throwables :
                Raise("validateAndCollectParameters", e) /\ End(Boundary(e))
          /\ UNCHANGED finalParams
    /\ UNCHANGED <<options, permission, decodedPolicy, validatedParams, pendingError,
                   executedParams, result>>

\* the catch of lines 129-139 applied to e thrown by collaborator c
PolicyReadFailed(c, e) ==
    /\ Raise(c, e)
    /\ decodedPolicy' = NoPolicy
    /\ IF PolicyCatchSwallows(e)
       THEN pc' = "validate" /\ outcome' = outcome
       ELSE End(Boundary(e))

\* lines 121-139: read the policy, decode it when it is not empty
FetchPolicy ==
    /\ pc = "policy"
    /\ UNCHANGED <<storeVars, regVars, cliVars>>
    /\ \/ /\ calls' = Append(calls, "getToolPolicy")         \* empty policy bytes
          /\ decodedPolicy' = NoPolicy
          /\ pc' = "validate"
          /\ UNCHANGED <<raised, outcome>>
       \/ /\ calls' = Append(calls, "getToolPolicy")         \* the read throws
          /\ \E e \in Throwables : PolicyReadFailed("getToolPolicy", e)
       \/ /\ calls' = calls \o <<"getToolPolicy", "decode">>  \* decoded
          /\ \E pol \in Policies : decodedPolicy' = pol
          /\ pc' = "validate"
          /\ UNCHANGED <<raised, outcome>>
       \/ /\ calls' = calls \o <<"getToolPolicy", "decode">>  \* decoding throws
          /\ \E e \in Throwables : PolicyReadFailed("decode", e)
    /\ UNCHANGED <<options, permission, finalParams, validatedParams, pendingError,
                   executedParams, result>>

\* line 143: if (decodedPolicy)
AlwaysValidates(policy) == TRUE

HasPolicy(policy) == policy # NoPolicy

\* lines 141-148 and 168-176: the first validation; the value the validator
\* throws on parameters the policy does not allow is the environment's
ValidateParameters ==
    /\ pc = "validate"
    /\ UNCHANGED <<storeVars, regVars, cliVars>>
    /\ validatedParams' = finalParams
    /\ IF ~HasPolicy(decodedPolicy)
       THEN /\ pc' = "execute"
            /\ UNCHANGED <<calls, raised, pendingError, outcome>>
       ELSE /\ calls' = Append(calls, "validateParamsAgainstPolicy")
            /\ IF PolicyAllows(decodedPolicy, finalParams)
               THEN /\ pc' = "execute"
                    /\ UNCHANGED <<raised, pendingError, outcome>>
               ELSE \E e \in Throwables :
                       /\ Raise("validateParamsAgainstPolicy", e)
                       /\ IF options.failedPolicyCallback /\ e.isError
                          THEN /\ pc' = "failedPolicy"
                               /\ pendingError' = e
                               /\ outcome' = outcome
                          ELSE /\ End(Boundary(ValidationFailed(e)))
                               /\ UNCHANGED pendingError
    /\ UNCHANGED <<options, permission, finalParams, decodedPolicy, executedParams, result>>

\* line 159: the second validation throws e inside the catch block of the
\* first one; nothing around it catches it before the outer catch
SecondValidationRetries(e) == pc' = "failedPolicy" /\ outcome' = outcome

SecondValidationIgnored(e) == pc' = "execute" /\ outcome' = outcome

SecondValidationFailed(e) == End(Boundary(e))

\* lines 149-167: failedPolicyCallback, then the second validation
FailedPolicyCallback ==
    /\ pc = "failedPolicy"
    /\ UNCHANGED <<storeVars, regVars, cliVars>>
    /\ \/ /\ calls' = Append(calls, "failedPolicyCallback")       \* returns null
          /\ raised' = raised
          /\ End(Boundary(ValidationFailed(pendingError)))
          /\ UNCHANGED validatedParams
       \/ /\ calls' = Append(calls, "failedPolicyCallback")       \* throws
          /\ \E e \in Throwables : Raise("failedPolicyCallback", e) /\ End(Boundary(e))
          /\ UNCHANGED validatedParams
       \/ \E p \in Params :                                       \* replacement
             /\ calls' = calls \o <<"failedPolicyCallback", "validateParamsAgainstPolicy">>
             /\ validatedParams' = p
             /\ IF PolicyAllows(decodedPolicy, p)
                THEN /\ pc' = "execute"
                     /\ UNCHANGED <<raised, outcome>>
                ELSE \E e \in Throwables :
                        Raise("validateParamsAgainstPolicy", e) /\ SecondValidationFailed(e)
    /\ UNCHANGED <<options, permission, finalParams, decodedPolicy, pendingError,
                   executedParams, result>>

\* lines 180-181
ExecuteAction ==
    /\ pc = "execute"
    /\ UNCHANGED <<storeVars, regVars, cliVars>>
    /\ calls' = Append(calls, "executeAction")
    /\ executedParams' = validatedParams
    /\ \/ /\ \E r \in Results : result' = r
          /\ pc' = "interpret"
          /\ UNCHANGED <<raised, outcome>>
       \/ /\ \E e \in Throwables : Raise("executeAction", e) /\ End(Boundary(e))
          /\ UNCHANGED result
    /\ UNCHANGED <<options, permission, finalParams, decodedPolicy, validatedParams,
                   pendingError>>

\* lines 188-201: the failure reason built from a response with status "error";
\* a field is appended when it is truthy; the text is kept as its pieces
ErrorMessage(resp) ==
    <<resp.error.text>>
      \o (IF resp.hasDetails /\ resp.reason.truthy
          THEN <<"\nReason: ", resp.reason.text>> ELSE <<>>)
      \o (IF resp.hasDetails /\ resp.code.truthy
          THEN <<"\nCode: ", resp.code.text>> ELSE <<>>)
      \o (IF resp.hasDetails /\ resp.emsg.truthy
          THEN <<"\nDetails: ", resp.emsg.text>> ELSE <<>>)

\* lines 184-187: response is not empty, JSON.parse succeeds, status is "error"
\* (reading .status of a parsed null throws and is caught at line 209)
IsStructuredError(resp) == resp.kind = "json" /\ resp.status = "error"

\* line 215: logs.includes('Error:')
LogsIncludeMarker(logs) == \E i \in 1..Len(logs) : logs[i] = "Error:"

\* line 216: logs.match(/Error:([^\n]+)/): position of the first marker that
\* is followed by at least one character other than a newline, 0 for no match
RECURSIVE MatchFrom(_, _)
MatchFrom(logs, i) ==
    IF i >= Len(logs) THEN 0
    ELSE IF logs[i] = "Error:" /\ logs[i + 1] # "\n" THEN i
    ELSE MatchFrom(logs, i + 1)

\* the capture group: everything after the marker up to the next newline
RECURSIVE CaptureFrom(_, _)
CaptureFrom(logs, j) ==
    IF j > Len(logs) \/ logs[j] = "\n" THEN <<>>
    ELSE <<logs[j]>> \o CaptureFrom(logs, j + 1)

\* String.prototype.trim
RECURSIVE TrimLeft(_)
TrimLeft(t) == IF t # <<>> /\ Head(t) = " " THEN TrimLeft(Tail(t)) ELSE t

RECURSIVE TrimRight(_)
TrimRight(t) ==
    IF t # <<>> /\ t[Len(t)] = " " THEN TrimRight(SubSeq(t, 1, Len(t) - 1)) ELSE t

Trim(t) == TrimRight(TrimLeft(t))

\* lines 183-229: what executeTool returns for the raw result r
InterpretResult(r) ==
    IF IsStructuredError(r.response)
    THEN Returned(FALSE, ErrorMessage(r.response), TRUE)
    ELSE IF LogsIncludeMarker(r.logs) /\ MatchFrom(r.logs, 1) # 0
    THEN Returned(FALSE,
                  <<"Lit Action error: ">>
                      \o Trim(CaptureFrom(r.logs, MatchFrom(r.logs, 1) + 1)),
                  TRUE)
    ELSE Returned(TRUE, <<>>, TRUE)

Interpret ==
    /\ pc = "interpret"
    /\ UNCHANGED <<storeVars, regVars, cliVars>>
    /\ End(InterpretResult(result))
    /\ UNCHANGED <<options, calls, raised, permission, finalParams, decodedPolicy,
                   validatedParams, pendingError, executedParams, result>>

ExecNext ==
    \/ Invoke
    \/ FindTool
    \/ HandlePermission
    \/ CollectParameters
    \/ FetchPolicy
    \/ ValidateParameters
    \/ FailedPolicyCallback
    \/ ExecuteAction
    \/ Interpret

(***************************************************************************)
(* Part III.  setToolPolicy and removeToolPolicy (full-self-signing        *)
(* index.ts, lines 37-148): encode, estimate gas, sign, serialize, send.   *)
(* Every step inside the try block may throw; the catch wraps the cause.   *)
(***************************************************************************)
MaxEstimate == 1001   \* largest gas estimate the provider returns

GasEstimates   == 0..MaxEstimate
Cids           == {"QmTool"}
PolicyPayloads == {"policyA", "policyB"}

\* what a step of the try block throws
Causes == {e \in Throwables : e.message = "boom"}

NoTxCall    == [op |-> "none", ipfsCid |-> "", policy |-> <<>>]
NoTxContext == [ipfsCid |-> <<>>, policy |-> <<>>, error |-> <<>>]
NoTxOutcome == [kind |-> "none", type |-> "none", message |-> "", context |-> NoTxContext]

\* the ContractTransaction handed back by provider.sendTransaction (lines 87, 140)
TxSent == [kind |-> "returned", type |-> "none", message |-> "", context |-> NoTxContext]

\* lines 75 and 128: gasEstimate.mul(120).div(100) on BigNumber, which is
\* unbounded and whose div truncates
GasLimitDivideFirst(estimate) == (estimate \div 100) * 120

GasLimit(estimate) == (estimate * 120) \div 100

\* the catch of setToolPolicy, lines 88-94
SetToolPolicyCatchRethrows(ipfsCid, policy, e) ==
    [kind |-> "thrown", type |-> e.type, message |-> e.message, context |-> NoTxContext]

SetToolPolicyCatch(ipfsCid, policy, e) ==
    [kind |-> "thrown", type |-> "TOOL_POLICY_REGISTRATION_FAILED",
     message |-> "Failed to register policy",
     context |-> [ipfsCid |-> <<ipfsCid>>, policy |-> <<policy>>, error |-> <<e>>]]

\* the catch of removeToolPolicy, lines 141-147: the context has no policy
RemoveToolPolicyCatch(ipfsCid, e) ==
    [kind |-> "thrown", type |-> "TOOL_POLICY_REGISTRATION_FAILED",
     message |-> "Failed to remove policy",
     context |-> [ipfsCid |-> <<ipfsCid>>, policy |-> <<>>, error |-> <<e>>]]

\* what signCallback may hand back as signature.signature
Signatures == {"sigA", "sigB"}

\* lines 54-58 and 109-111: the encoded function call
CallData(call) ==
    [fn |-> IF call.op = "set" THEN "setActionPolicy" ELSE "removeActionPolicy",
     ipfsCid |-> call.ipfsCid,
     policy |-> call.policy]

\* lines 61-64 and 114-117: tx = { to: contract.address, data }
UnsignedTx(call) ==
    [to |-> "contract", data |-> CallData(call), gasLimit |-> <<>>, signature |-> <<>>]

\* lines 73-76 and 126-129: finalTx = { ...tx, gasLimit }
FinalTx(call, limit) == [UnsignedTx(call) EXCEPT !.gasLimit = limit]

\* lines 79 and 132: keccak256(serializeTransaction(finalTx))
Digest(tx) == [hash |-> "keccak256", of |-> tx]

\* lines 83-86 and 136-139: serializeTransaction(finalTx, signature.signature)
SignedTxFromEstimate(call, estimate, limit, sig) ==
    [FinalTx(call, estimate) EXCEPT !.signature = <<sig>>]

SignedTx(call, estimate, limit, sig) ==
    [FinalTx(call, limit) EXCEPT !.signature = <<sig>>]

\* one call on the provider or on signCallback, and whether it returned
TraceEntry(call, arg, ok, ret) == [call |-> call, arg |-> arg, ok |-> ok, ret |-> ret]

\* the signature signCallback returned
SignatureOf(trace) == trace[Len(trace)].ret[1]

RegInit ==
    /\ txPc = "Idle"
    /\ txCall = NoTxCall
    /\ gasEstimate = <<>>
    /\ gasLimit = <<>>
    /\ txCause = <<>>
    /\ txOutcome = NoTxOutcome
    /\ txTrace = <<>>

\* the step named step throws e: the catch of the running function
TxFail(step, e) ==
    /\ txCause' = <<step, e>>
    /\ txPc' = "Done"
    /\ txOutcome' = IF txCall.op = "set"
                    THEN SetToolPolicyCatch(txCall.ipfsCid, txCall.policy[1], e)
                    ELSE RemoveToolPolicyCatch(txCall.ipfsCid, e)

\* the step named step either succeeds and control reaches next, or throws
TxStep(step, next) ==
    /\ \/ txPc' = next /\ UNCHANGED <<txCause, txOutcome>>
       \/ \E e \in Causes : TxFail(step, e)
    /\ UNCHANGED <<txCall, gasEstimate, gasLimit, txTrace>>
    /\ UNCHANGED <<storeVars, execVars, cliVars>>

\* setToolPolicy is called (line 37)
CallSetToolPolicy ==
    /\ txPc = "Idle"
    /\ \E c \in Cids, p \in PolicyPayloads :
          txCall' = [op |-> "set", ipfsCid |-> c, policy |-> <<p>>]
    /\ txPc' = "encodePolicy"
    /\ UNCHANGED <<gasEstimate, gasLimit, txCause, txOutcome, txTrace>>
    /\ UNCHANGED <<storeVars, execVars, cliVars>>

\* removeToolPolicy is called (line 100)
CallRemoveToolPolicy ==
    /\ txPc = "Idle"
    /\ \E c \in Cids : txCall' = [op |-> "remove", ipfsCid |-> c, policy |-> <<>>]
    /\ txPc' = "encodeCall"
    /\ UNCHANGED <<gasEstimate, gasLimit, txCause, txOutcome, txTrace>>
    /\ UNCHANGED <<storeVars, execVars, cliVars>>

\* lines 48-51
EncodePolicy ==
    /\ txPc = "encodePolicy"
    /\ TxStep("encodePolicy", "encodeCall")

\* lines 54-58 and 109-111
EncodeCall ==
    /\ txPc = "encodeCall"
    /\ TxStep("encodeCall", "estimateGas")

\* lines 67-76 and 120-129: the estimate, then the limit of finalTx
EstimateGas ==
    /\ txPc = "estimateGas"
    /\ \/ /\ \E g \in GasEstimates :
                /\ gasEstimate' = <<g>>
                /\ gasLimit' = <<GasLimit(g)>>
                /\ txTrace' = Append(txTrace,
                       TraceEntry("estimateGas", UnsignedTx(txCall), TRUE, <<g>>))
          /\ txPc' = "sign"
          /\ UNCHANGED <<txCause, txOutcome>>
       \/ /\ \E e \in Causes : TxFail("estimateGas", e)
          /\ txTrace' = Append(txTrace,
                 TraceEntry("estimateGas", UnsignedTx(txCall), FALSE, <<>>))
          /\ UNCHANGED <<gasEstimate, gasLimit>>
    /\ UNCHANGED txCall
    /\ UNCHANGED <<storeVars, execVars, cliVars>>

\* lines 78-80 and 131-133: digest of the unsigned transaction, signCallback.
\* Serializing or hashing may throw before signCallback is reached.
Sign ==
    /\ txPc = "sign"
    /\ LET digest == Digest(FinalTx(txCall, gasLimit)) IN
       \/ /\ \E sig \in Signatures :
                txTrace' = Append(txTrace,
                    TraceEntry("signCallback", digest, TRUE, <<sig>>))
          /\ txPc' = "serialize"
          /\ UNCHANGED <<txCause, txOutcome>>
       \/ /\ \E e \in Causes : TxFail("sign", e)
          /\ \/ txTrace' = Append(txTrace,
                    TraceEntry("signCallback", digest, FALSE, <<>>))
             \/ UNCHANGED txTrace
    /\ UNCHANGED <<txCall, gasEstimate, gasLimit>>
    /\ UNCHANGED <<storeVars, execVars, cliVars>>

\* lines 83-86 and 136-139
Serialize ==
    /\ txPc = "serialize"
    /\ TxStep("serialize", "send")

\* lines 87 and 140: provider.sendTransaction
Send ==
    /\ txPc = "send"
    /\ LET signedTx == SignedTx(txCall, gasEstimate, gasLimit, SignatureOf(txTrace)) IN
       \/ /\ txPc' = "Done" /\ txOutcome' = TxSent /\ UNCHANGED txCause
          /\ txTrace' = Append(txTrace,
                 TraceEntry("sendTransaction", signedTx, TRUE, <<>>))
       \/ /\ \E e \in Causes : TxFail("send", e)
          /\ txTrace' = Append(txTrace,
                 TraceEntry("sendTransaction", signedTx, FALSE, <<>>))
    /\ UNCHANGED <<txCall, gasEstimate, gasLimit>>
    /\ UNCHANGED <<storeVars, execVars, cliVars>>

RegNext ==
    \/ CallSetToolPolicy
    \/ CallRemoveToolPolicy
    \/ EncodePolicy
    \/ EncodeCall
    \/ EstimateGas
    \/ Sign
    \/ Serialize
    \/ Send

(***************************************************************************)
(* Part IV.  The admin handlers handleUnpermitToolForDelegatee and         *)
(* handleDisableToolPolicy (aw-cli, unpermit-tool-for-delegatee.ts).       *)
(* What awAdmin returns and what the user selects is the environment's.    *)
(***************************************************************************)
CliTools      == {"t1", "t2"}
CliDelegatees == {"d1", "d2"}

\* a tool of RegisteredToolsResult: the map it is listed in, its delegatees,
\* and the delegatees whose entry of delegateePolicies has policyEnabled
Categories == {"absent", "toolsWithPolicies", "toolsWithoutPolicies",
               "toolsUnknownWithPolicies"}
ToolEntry(category, delegatees, enabledFor) ==
    [category |-> category, delegatees |-> delegatees, enabledFor |-> enabledFor]
AbsentTool == ToolEntry("absent", {}, {})

Registry(isNull, tools) == [isNull |-> isNull, tools |-> tools]
NullRegistry == Registry(TRUE, [t \in CliTools |-> AbsentTool])

\* the results getRegisteredToolsAndDelegateesForPkp hands to the unpermit
\* flow (which reads the three maps only) and to the disable flow
UnpermitRegistries ==
    {NullRegistry} \cup
    {Registry(FALSE, f) : f \in [CliTools -> {ToolEntry(c, {}, {}) : c \in Categories}]}
DisableRegistries ==
    {NullRegistry} \cup
    {Registry(FALSE, f) :
        f \in [CliTools -> {AbsentTool} \cup
                           {ToolEntry("toolsWithoutPolicies", {}, {})} \cup
                           {ToolEntry("toolsWithPolicies", d, e) :
                               d \in SUBSET CliDelegatees, e \in SUBSET CliDelegatees}]}

ToolsIn(reg, category) == {t \in CliTools : reg.tools[t].category = category}

\* a value thrown by awAdmin that is not an AwCliError
OtherError == [type |-> "Error", message |-> "boom"]
AwCliError(type, message) == [type |-> type, message |-> message]

NoCliOutcome == [kind |-> "none", errType |-> "none", message |-> "", logged |-> ""]

\* the handler caught an AwCliError it knows, logged a line and returned
CliReturned(e, line) ==
    [kind |-> "returned", errType |-> e.type, message |-> e.message, logged |-> line]

\* the handler threw e again
CliThrown(e) == [kind |-> "thrown", errType |-> e.type, message |-> e.message, logged |-> ""]

\* the handler ran to its end
CliSucceeded(line) == [kind |-> "returned", errType |-> "none", message |-> "", logged |-> line]

CliInit ==
    /\ cliPc = "Idle"
    /\ cliFlow = "none"
    /\ cliRegistered = NullRegistry
    /\ cliFetched = NullRegistry
    /\ cliDelegatee = ""
    /\ cliPermitted = <<>>
    /\ cliTool = ""
    /\ cliEvents = <<>>
    /\ cliOutcome = NoCliOutcome

\* the handler ends with outcome o after the events evs
CliEnd(evs, o) ==
    /\ cliPc' = "Done"
    /\ cliOutcome' = o
    /\ cliEvents' = cliEvents \o evs \o (IF o.logged = "" THEN <<>> ELSE <<"log">>)

\* the handler goes on to next after the events evs
CliGoto(evs, next) ==
    /\ cliPc' = next
    /\ cliEvents' = cliEvents \o evs
    /\ UNCHANGED cliOutcome

\* one of the two handlers is called
CliInvoke ==
    /\ cliPc = "Idle"
    /\ \E f \in {"unpermit", "disable"} :
          /\ cliFlow' = f
          /\ cliPc' = IF f = "unpermit" THEN "u:registered" ELSE "d:registered"
    /\ UNCHANGED <<cliRegistered, cliDelegatee, cliPermitted, cliTool, cliEvents, cliOutcome, cliFetched>>
    /\ UNCHANGED <<storeVars, execVars, regVars>>

\* handleUnpermitToolForDelegatee, lines 80-85: nothing is registered
NoRegisteredTools(reg) ==
    \/ reg.isNull
    \/ /\ ToolsIn(reg, "toolsWithPolicies") = {}
       /\ ToolsIn(reg, "toolsWithoutPolicies") = {}
       /\ ToolsIn(reg, "toolsUnknownWithPolicies") = {}

\* lines 129-134: nothing is left after the filter
NoPermittedToolsLeftNever(reg) == FALSE

NoPermittedToolsLeft(reg) ==
    \/ reg.isNull
    \/ /\ ToolsIn(reg, "toolsWithPolicies") = {}
       /\ ToolsIn(reg, "toolsWithoutPolicies") = {}
       /\ ToolsIn(reg, "toolsUnknownWithPolicies") = {}

\* lines 101-127: keep the tools that are permitted for the delegatee
FilterPermittedKeepsAll(reg, permitted) == reg

FilterPermitted(reg, permitted) ==
    Registry(FALSE, [t \in CliTools |->
                        IF t \in permitted THEN reg.tools[t] ELSE AbsentTool])

UnpermitNoPermittedTools == "ADMIN_UNPERMIT_TOOL_FOR_DELEGATEE_NO_PERMITTED_TOOLS"
UnpermitCancelled        == "ADMIN_UNPERMIT_TOOL_FOR_DELEGATEE_CANCELLED"

\* the catch of handleUnpermitToolForDelegatee, lines 150-174
UnpermitCatch(e) ==
    IF e.type = UnpermitNoPermittedTools
    THEN CliReturned(e, "No permitted tools found.")
    ELSE IF e.type = UnpermitCancelled
    THEN CliReturned(e, "Unpermit tool for delegatee cancelled.")
    ELSE CliThrown(e)

\* lines 76-90
UnpermitGetRegisteredTools ==
    /\ cliPc = "u:registered"
    /\ \/ \E reg \in UnpermitRegistries :
             /\ cliRegistered' = reg
             /\ cliFetched' = reg
             /\ IF NoRegisteredTools(reg)
                THEN CliEnd(<<"getRegisteredTools">>,
                            UnpermitCatch(AwCliError(UnpermitNoPermittedTools,
                                                     "No permitted tools found.")))
                ELSE CliGoto(<<"getRegisteredTools">>, "u:delegatee")
       \/ /\ CliEnd(<<"getRegisteredTools">>, UnpermitCatch(OtherError))
          /\ UNCHANGED <<cliRegistered, cliFetched>>
    /\ UNCHANGED <<cliFlow, cliDelegatee, cliPermitted, cliTool>>
    /\ UNCHANGED <<storeVars, execVars, regVars>>

\* lines 92-94 and 13-32: the delegatees are fetched and the user selects one
UnpermitSelectDelegatee ==
    /\ cliPc = "u:delegatee"
    /\ \/ /\ CliEnd(<<"getDelegatees">>, UnpermitCatch(OtherError))
          /\ UNCHANGED cliDelegatee
       \/ \E d \in CliDelegatees :
             /\ cliDelegatee' = d
             /\ CliGoto(<<"getDelegatees", "promptDelegatee">>, "u:permitted")
       \/ /\ CliEnd(<<"getDelegatees", "promptDelegatee">>,
                    UnpermitCatch(AwCliError(UnpermitCancelled,
                                             "Unpermit tool for delegatee cancelled.")))
          /\ UNCHANGED cliDelegatee
    /\ UNCHANGED <<cliFlow, cliRegistered, cliPermitted, cliTool, cliFetched>>
    /\ UNCHANGED <<storeVars, execVars, regVars>>

\* lines 96-139: the delegatee's permitted tools, the filter, the second check
UnpermitFilterPermitted ==
    /\ cliPc = "u:permitted"
    /\ \/ /\ CliEnd(<<"getPermittedTools">>, UnpermitCatch(OtherError))
          /\ UNCHANGED <<cliRegistered, cliPermitted>>
       \/ \E permitted \in SUBSET CliTools :
             LET filtered == FilterPermitted(cliRegistered, permitted)
             IN  /\ cliPermitted' = <<permitted>>
                 /\ cliRegistered' = filtered
                 /\ IF NoPermittedToolsLeft(filtered)
                    THEN CliEnd(<<"getPermittedTools">>,
                                UnpermitCatch(AwCliError(UnpermitNoPermittedTools,
                                    "No permitted tools found for this delegatee.")))
                    ELSE CliGoto(<<"getPermittedTools">>, "u:tool")
    /\ UNCHANGED <<cliFlow, cliDelegatee, cliTool, cliFetched>>
    /\ UNCHANGED <<storeVars, execVars, regVars>>

\* lines 141 and 34-69: the prompt offers the tools of toolsWithPolicies and
\* toolsWithoutPolicies
UnpermitSelectTool ==
    /\ cliPc = "u:tool"
    /\ \/ \E t \in ToolsIn(cliRegistered, "toolsWithPolicies")
                     \cup ToolsIn(cliRegistered, "toolsWithoutPolicies") :
             /\ cliTool' = t
             /\ CliGoto(<<"promptTool">>, "u:call")
       \/ /\ CliEnd(<<"promptTool">>,
                    UnpermitCatch(AwCliError(UnpermitCancelled,
                                             "Unpermit tool for delegatee cancelled.")))
          /\ UNCHANGED cliTool
    /\ UNCHANGED <<cliFlow, cliRegistered, cliDelegatee, cliPermitted, cliFetched>>
    /\ UNCHANGED <<storeVars, execVars, regVars>>

\* lines 143-149
UnpermitCall ==
    /\ cliPc = "u:call"
    /\ \/ CliEnd(<<"unpermitToolForDelegatee">>, CliSucceeded("Tool unpermitted successfully."))
       \/ CliEnd(<<"unpermitToolForDelegatee">>, UnpermitCatch(OtherError))
    /\ UNCHANGED <<cliFlow, cliRegistered, cliDelegatee, cliPermitted, cliTool, cliFetched>>
    /\ UNCHANGED <<storeVars, execVars, regVars>>

DisableNoToolsFound   == "ADMIN_DISABLE_TOOL_POLICY_NO_TOOLS_FOUND"
DisableNoEnabledTools == "ADMIN_DISABLE_TOOL_POLICY_NO_ENABLED_TOOLS"
DisableCancelled      == "ADMIN_DISABLE_TOOL_POLICY_CANCELLED"
SetPolicyNoDelegatees == "ADMIN_SET_TOOL_POLICY_NO_DELEGATEES"

\* handleDisableToolPolicy, lines 275-281 (and the filter of lines 191-196)
ToolsWithEnabledPolicies(reg) ==
    {t \in ToolsIn(reg, "toolsWithPolicies") : reg.tools[t].enabledFor # {}}

\* lines 295-297
DelegateesOfTool(reg, t) == reg.tools[t].delegatees

DelegateesWithEnabledPolicies(reg, t) ==
    reg.tools[t].delegatees \cap reg.tools[t].enabledFor

\* the error thrown at lines 299-304
NoEnabledDelegatees ==
    AwCliError(DisableNoEnabledTools,
               "No delegatees with enabled policies found for the selected tool.")

\* the catch of handleDisableToolPolicy, lines 313-345
DisableCatch(e) ==
    IF e.type = DisableNoToolsFound
    THEN CliReturned(e, "No permitted tools with policies found.")
    ELSE IF e.type = DisableCancelled
    THEN CliReturned(e, "Tool policy disabling cancelled.")
    ELSE IF e.type = DisableNoEnabledTools
    THEN CliReturned(e, "No tools with enabled policies found.")
    ELSE IF e.type = SetPolicyNoDelegatees
    THEN CliReturned(e, "No delegatees with enabled policies found.")
    ELSE CliThrown(e)

\* lines 261-288
DisableGetRegisteredTools ==
    /\ cliPc = "d:registered"
    /\ \/ \E reg \in DisableRegistries :
             /\ cliRegistered' = reg
             /\ cliFetched' = reg
             /\ IF reg.isNull \/ ToolsIn(reg, "toolsWithPolicies") = {}
                THEN CliEnd(<<"getRegisteredTools">>,
                            DisableCatch(AwCliError(DisableNoToolsFound,
                                "No permitted tools with policies found.")))
                ELSE IF ToolsWithEnabledPolicies(reg) = {}
                THEN CliEnd(<<"getRegisteredTools">>,
                            DisableCatch(AwCliError(DisableNoEnabledTools,
                                "No tools with enabled policies found.")))
                ELSE CliGoto(<<"getRegisteredTools">>, "d:tool")
       \/ /\ CliEnd(<<"getRegisteredTools">>, DisableCatch(OtherError))
          /\ UNCHANGED <<cliRegistered, cliFetched>>
    /\ UNCHANGED <<cliFlow, cliDelegatee, cliPermitted, cliTool>>
    /\ UNCHANGED <<storeVars, execVars, regVars>>

\* lines 291-304 and 187-220: the user selects a tool, then the delegatees of
\* that tool with an enabled policy are looked up
DisableSelectTool ==
    /\ cliPc = "d:tool"
    /\ \/ \E t \in ToolsWithEnabledPolicies(cliRegistered) :
             /\ cliTool' = t
             /\ IF DelegateesWithEnabledPolicies(cliRegistered, t) = {}
                THEN CliEnd(<<"promptTool">>, DisableCatch(NoEnabledDelegatees))
                ELSE CliGoto(<<"promptTool">>, "d:delegatee")
       \/ /\ CliEnd(<<"promptTool">>,
                    DisableCatch(AwCliError(DisableCancelled,
                                            "Tool policy disabling cancelled.")))
          /\ UNCHANGED cliTool
    /\ UNCHANGED <<cliFlow, cliRegistered, cliDelegatee, cliPermitted, cliFetched>>
    /\ UNCHANGED <<storeVars, execVars, regVars>>

\* lines 309 and 222-254: promptSelectToolDelegateeForPolicy
DisableSelectDelegatee ==
    /\ cliPc = "d:delegatee"
    /\ LET delegatees == DelegateesWithEnabledPolicies(cliRegistered, cliTool)
       IN  IF delegatees = {}
           THEN /\ CliEnd(<<>>, DisableCatch(AwCliError(SetPolicyNoDelegatees,
                                    "No delegatees with tool policy found.")))
                /\ UNCHANGED cliDelegatee
           ELSE \/ \E d \in delegatees :
                      /\ cliDelegatee' = d
                      /\ CliGoto(<<"promptDelegatee">>, "d:call")
                \/ /\ CliEnd(<<"promptDelegatee">>,
                             DisableCatch(AwCliError(DisableCancelled,
                                                     "Disable tool policy cancelled.")))
                   /\ UNCHANGED cliDelegatee
    /\ UNCHANGED <<cliFlow, cliRegistered, cliPermitted, cliTool, cliFetched>>
    /\ UNCHANGED <<storeVars, execVars, regVars>>

\* lines 306-312
DisableCall ==
    /\ cliPc = "d:call"
    /\ \/ CliEnd(<<"disableToolPolicyForDelegatee">>,
                 CliSucceeded("Tool policy disabled successfully."))
       \/ CliEnd(<<"disableToolPolicyForDelegatee">>, DisableCatch(OtherError))
    /\ UNCHANGED <<cliFlow, cliRegistered, cliDelegatee, cliPermitted, cliTool, cliFetched>>
    /\ UNCHANGED <<storeVars, execVars, regVars>>

CliNext ==
    \/ CliInvoke
    \/ UnpermitGetRegisteredTools
    \/ UnpermitSelectDelegatee
    \/ UnpermitFilterPermitted
    \/ UnpermitSelectTool
    \/ UnpermitCall
    \/ DisableGetRegisteredTools
    \/ DisableSelectTool
    \/ DisableSelectDelegatee
    \/ DisableCall

(***************************************************************************)
(* Specifications.                                                         *)
(***************************************************************************)
vars == <<storeVars, execVars, regVars, cliVars>>

Init == StoreInit /\ ExecInit /\ RegInit /\ CliInit

\* the parameter store under arbitrary calls
Spec == Init /\ [][StoreNext]_vars

\* one removal from a name list of up to MaxListLen names
RemovalSpec == Init /\ [][ApplyRemoval]_vars

\* one invocation of executeTool
ExecSpec == Init /\ [][ExecNext]_vars

\* one call of setToolPolicy or removeToolPolicy
RegSpec == Init /\ [][RegNext]_vars

\* one run of an admin handler
CliSpec == Init /\ [][CliNext]_vars

(***************************************************************************)
(* Part I, properties of the parameter store.                              *)
(***************************************************************************)
CallKey == <<lastCall.pkp, lastCall.tool, lastCall.delegatee>>

Count(list, name) == Cardinality({i \in 1..Len(list) : list[i] = name})

Listed(list) == {list[i] : i \in 1..Len(list)}

\* the call named a non-zero delegatee and a tool registered under the PKP
ValidTriple ==
    /\ lastCall.delegatee # ZeroAddress
    /\ lastCall.tool \in registeredTools[lastCall.pkp]

ByOwner == lastCall.sender = PKPOwner(lastCall.pkp)

StoreUntouched ==
    /\ policyParameterNames = lastCall.preNames
    /\ policyParameters = lastCall.preValues

\* C1: no name list ever holds a name twice, and after a successful
\* setParameter(name, v) (alone or as an element of a batch) the name list of
\* the triple holds name exactly once, however often it was set before.
C1_NameListedExactlyOnce ==
    /\ \A k \in Keys : \A n \in Names : Count(policyParameterNames[k], n) <= 1
    /\ (lastCall.op \in {"set", "batchSet"} /\ lastCall.ok) =>
          \A i \in 1..Len(lastCall.names) :
              Count(policyParameterNames[CallKey], lastCall.names[i]) = 1

\* C1 witness: setParameter succeeded on a name that was already registered
\* by an earlier setParameter.
C1_Witness ==
    /\ lastCall.op = "set" /\ lastCall.ok
    /\ Count(lastCall.preNames[CallKey], lastCall.names[1]) = 1
    /\ Count(policyParameterNames[CallKey], lastCall.names[1]) = 1

C3_NamesAndValuesAgree ==
    \A k \in Keys : \A n \in Names :
        (n \in Listed(policyParameterNames[k])) <=> (policyParameters[k][n] # EmptyBytes)

\* C4: a batch call applies all of its elements or persists nothing: a failed
\* batch leaves the store as it found it and emits nothing, a successful one
\* entered the single-item operation once per element, and a names/values
\* length mismatch is rejected before any element is processed.
C4_BatchAllOrNothing ==
    (lastCall.op \in {"batchSet", "batchRemove"}) =>
        /\ ~lastCall.ok => (StoreUntouched /\ lastCall.events = <<>>)
        /\ lastCall.ok => /\ lastCall.entered = Len(lastCall.names)
                          /\ Len(lastCall.events) = Len(lastCall.names)
        /\ (lastCall.op = "batchSet" /\ Len(lastCall.names) # Len(lastCall.values))
              => (~lastCall.ok /\ lastCall.entered = 0)

\* C4 witness: the owner's batchSetParameters on a valid triple with two names
\* and one value was rejected.
C4_Witness ==
    /\ lastCall.op = "batchSet" /\ ~lastCall.ok
    /\ ByOwner /\ ValidTriple
    /\ Len(lastCall.names) = 2 /\ Len(lastCall.values) = 1
    /\ lastCall.err = "ArrayLengthMismatch"

\* C5: a mutating call by a sender that does not own the PKP fails before any
\* function body is entered and changes nothing; every change of the store
\* was made by a call of the PKP's owner.
C5_OnlyOwnerMutates ==
    /\ (lastCall.op \in Mutating /\ ~ByOwner) =>
          (~lastCall.ok /\ lastCall.entered = 0 /\ StoreUntouched /\ lastCall.events = <<>>)
    /\ ~StoreUntouched => (lastCall.op \in Mutating /\ ByOwner)

\* C5 witness: a sender that is not the owner called setParameter on a valid
\* triple whose list is not empty, and the call failed.
C5_Witness ==
    /\ lastCall.op = "set" /\ ~ByOwner /\ ValidTriple
    /\ ~lastCall.ok /\ lastCall.err = "NotPKPOwner"
    /\ policyParameterNames[CallKey] # <<>>

\* C6: every mutating call whose delegatee is address(0) fails, batch calls
\* with empty arrays included, and nothing is stored under address(0).
C6_ZeroDelegateeAlwaysFails ==
    /\ (lastCall.op \in Mutating /\ lastCall.delegatee = ZeroAddress) => ~lastCall.ok
    /\ \A p \in PKPs, t \in Tools :
          /\ policyParameterNames[<<p, t, ZeroAddress>>] = <<>>
          /\ \A n \in Names : policyParameters[<<p, t, ZeroAddress>>][n] = EmptyBytes

\* C7 as stated: getParameter returns empty bytes, and does not fail,
\* whenever no value is stored for the name under the triple.
C7_GetAbsentNeverFails ==
    (lastCall.op = "get" /\ policyParameters[CallKey][lastCall.names[1]] = EmptyBytes)
        => (lastCall.ok /\ lastCall.ret = <<EmptyBytes>>)

\* C7 amended: the two reads do not depend on the sender and change nothing;
\* they succeed exactly when the delegatee is not address(0) and the tool is
\* registered under the PKP, and then getParameter returns the stored value
\* (empty bytes when none is stored) and getParameterNames the name list.
C7_ReadsOpenAndEmptyWhenAbsent ==
    (lastCall.op \in {"get", "getNames"}) =>
        /\ lastCall.ok <=> ValidTriple
        /\ StoreUntouched
        /\ (lastCall.ok /\ lastCall.op = "get") =>
              lastCall.ret = <<policyParameters[CallKey][lastCall.names[1]]>>
        /\ (lastCall.ok /\ lastCall.op = "getNames") =>
              lastCall.ret = policyParameterNames[CallKey]

\* C7 witness: a sender that is not the owner read a name that is not set
\* under a triple that holds another name, and got empty bytes.
C7_Witness ==
    /\ lastCall.op = "get" /\ lastCall.ok /\ ~ByOwner
    /\ lastCall.ret = <<EmptyBytes>>
    /\ lastCall.names[1] \notin Listed(policyParameterNames[CallKey])
    /\ policyParameterNames[CallKey] # <<>>

\* C23: removing a name present at index i of a list of length n gives a list
\* of length n-1 whose names are the old names without the removed one, each
\* once; position i holds the former last name when i was not the last
\* index, every other remaining position is unchanged; the value of the
\* removed name is deleted and every other value is unchanged.
C23_SwapWithLastRemoval ==
    (removal.done /\ \E i \in 1..Len(removal.list) : removal.list[i] = removal.name) =>
        LET old  == removal.list
            n    == Len(old)
            i    == CHOOSE j \in 1..n : old[j] = removal.name
            new  == removal.tx.names[RemovalKey]
            vals == removal.tx.values[RemovalKey]
        IN  /\ ~removal.tx.reverted
            /\ Len(new) = n - 1
            /\ Listed(new) = Listed(old) \ {removal.name}
            /\ \A m \in Listed(new) : Count(new, m) = 1
            /\ i # n => new[i] = old[n]
            /\ \A j \in 1..(n - 1) : j # i => new[j] = old[j]
            /\ vals[removal.name] = EmptyBytes
            /\ \A m \in ListNames : m # removal.name => vals[m] = removal.values[m]

\* C23 witness: the second of four names, which had a value, was removed; the
\* fourth took its place and the first and third stayed where they were.
C23_Witness ==
    /\ removal.done
    /\ removal.list = <<1, 2, 3, 4>>
    /\ removal.name = 2
    /\ removal.values[2] # EmptyBytes
    /\ removal.tx.names[RemovalKey] = <<1, 4, 3>>

\* the store and the events after the first k names of the last call were
\* handed, one call each and in order, to the single-item function; batchSet
\* uses setToolPolicyParameterForDelegatee, batchRemove the removal
RECURSIVE AfterSingleCalls(_)
AfterSingleCalls(k) ==
    IF k = 0
    THEN [names |-> lastCall.preNames, values |-> lastCall.preValues,
          events |-> <<>>, ok |-> TRUE]
    ELSE LET before == AfterSingleCalls(k - 1)
             start  == Tx(before.names, before.values)
             tx     == IF lastCall.op = "batchSet"
                       THEN setToolPolicyParameterForDelegatee(start, registeredTools,
                                lastCall.sender, lastCall.pkp, lastCall.tool,
                                lastCall.delegatee, lastCall.names[k], lastCall.values[k])
                       ELSE removeToolPolicyParameterForDelegatee(start, registeredTools,
                                lastCall.sender, lastCall.pkp, lastCall.tool,
                                lastCall.delegatee, lastCall.names[k])
         IN  IF ~before.ok \/ tx.reverted THEN [before EXCEPT !.ok = FALSE]
             ELSE [names |-> tx.names, values |-> tx.values,
                   events |-> before.events \o tx.events, ok |-> TRUE]

\* the last position of name in the batch of the last call
LastIndexIn(names, name) ==
    CHOOSE i \in 1..Len(names) :
        names[i] = name /\ \A j \in (i + 1)..Len(names) : names[j] # name

\* C24: a successful batchSet leaves the name lists, the values and the
\* emitted events exactly as the single set calls made in order on the same
\* storage would, all of which succeed; a successful batchRemove likewise
\* with the single removals.  A name given more than once in a batchSet is
\* listed once and holds the value given last.
C24_BatchIsOrderedSingles ==
    (lastCall.op \in {"batchSet", "batchRemove"} /\ lastCall.ok) =>
        LET singles == AfterSingleCalls(Len(lastCall.names))
        IN  /\ singles.ok
            /\ policyParameterNames = singles.names
            /\ policyParameters = singles.values
            /\ lastCall.events = singles.events
            /\ Len(lastCall.events) = Len(lastCall.names)
            /\ lastCall.op = "batchSet" =>
                  \A name \in Listed(lastCall.names) :
                      /\ Count(policyParameterNames[CallKey], name) = 1
                      /\ policyParameters[CallKey][name] =
                            lastCall.values[LastIndexIn(lastCall.names, name)]
            /\ lastCall.op = "batchRemove" =>
                  \A name \in Listed(lastCall.names) :
                      /\ Count(policyParameterNames[CallKey], name) = 0
                      /\ policyParameters[CallKey][name] = EmptyBytes

\* C24 witness: a batchSet gave the same name twice with different values on
\* a list that already held another name.
C24_Witness ==
    /\ lastCall.op = "batchSet"
    /\ lastCall.ok
    /\ lastCall.names = <<1, 1>>
    /\ lastCall.values = <<1, EmptyBytes>>
    /\ lastCall.preNames[CallKey] = <<2>>
    /\ policyParameterNames[CallKey] = <<2, 1>>
    /\ policyParameters[CallKey][1] = EmptyBytes

\* C24, the removals: a batchRemove gave two listed names, first the one
\* listed first.
C24_WitnessRemove ==
    /\ lastCall.op = "batchRemove"
    /\ lastCall.ok
    /\ lastCall.names = <<1, 2>>
    /\ lastCall.preNames[CallKey] = <<1, 2>>
    /\ policyParameterNames[CallKey] = <<>>

Called(c) == \E i \in 1..Len(calls) : calls[i] = c

\* C8: when permissionCallback declines, executeTool returns
\* {success: false, reason: "Permission denied by user"} without throwing, and
\* no later stage runs: tool resolution and permission handling are the only
\* collaborators invoked.
C8_DenialReturnsFailure ==
    permission = "declined" =>
        /\ pc = "Done"
        /\ outcome = Returned(FALSE, <<PermissionDenied>>, FALSE)
        /\ calls = <<"findTool", "handleToolPermission">>

\* C8 witness: the permission stage ended with the user declining.
C8_Witness ==
    /\ permission = "declined"
    /\ pc = "Done"
    /\ raised = <<<<"handleToolPermission",
                    LitAgentError("TOOL_PERMISSION_FAILED", PermissionDenied)>>>>

\* C9 as stated: every failure raised at any stage ends the invocation with a
\* returned {success: false, reason} when it is a LitAgentError and with a
\* thrown ToolExecutionFailed wrapping it otherwise; no failure yields
\* success: true.
C9_EveryFailureReturnedOrThrown ==
    pc = "Done" =>
        \A i \in 1..Len(raised) :
            LET e == raised[i][2]
            IN  /\ e.tagged => outcome = Returned(FALSE, <<e.message>>, FALSE)
                /\ ~e.tagged => /\ outcome.kind = "thrown"
                                /\ outcome.errType = "TOOL_EXECUTION_FAILED"
                                /\ outcome.original = e
                /\ ~outcome.success

\* the failure raised i-th was a policy read (or decode) failure that the
\* catch of lines 129-139 swallows
SwallowedRead(i) ==
    /\ raised[i][1] \in {"getToolPolicy", "decode"}
    /\ raised[i][2].isError
    /\ raised[i][2].message = NotInitialized

\* the failure raised i-th was the first validation failure of the invocation
FirstValidationFailure(i) ==
    /\ raised[i][1] = "validateParamsAgainstPolicy"
    /\ \A j \in 1..(i - 1) : raised[j][1] # "validateParamsAgainstPolicy"

\* C9 amended: every failure other than a swallowed policy-read failure and a
\* first validation failure reaches the boundary and ends the invocation at
\* once: a LitAgentError gives a returned {success: false, reason: message},
\* anything else a thrown ToolExecutionFailed that wraps it; an invocation in
\* which a failure reached the boundary never returns success: true.
C9_BoundaryConvertsFailures ==
    \A i \in 1..Len(raised) :
        (~SwallowedRead(i) /\ ~FirstValidationFailure(i)) =>
            LET e == raised[i][2]
            IN  /\ pc = "Done"
                /\ i = Len(raised)
                /\ e.tagged => outcome = Returned(FALSE, <<e.message>>, FALSE)
                /\ ~e.tagged =>
                      outcome = Thrown("TOOL_EXECUTION_FAILED",
                                       IF e.isError THEN e.message
                                       ELSE "Failed to execute tool", e)

\* C9 witness: after a swallowed policy-read failure, executeAction threw a
\* plain Error and executeTool threw ToolExecutionFailed.
C9_Witness ==
    /\ pc = "Done"
    /\ Len(raised) = 2
    /\ SwallowedRead(1)
    /\ raised[2] = <<"executeAction", PlainError("boom")>>
    /\ outcome.kind = "thrown"

\* C10 as stated: a policy-read failure with message "Tool policy manager not
\* initialized" is swallowed (decodedPolicy stays null, no validation, the
\* pipeline goes on to execution); any other policy-read failure prevents
\* execution and reaches the caller unchanged, as the thrown value.
C10_ReadFailureSwallowedOrUnchanged ==
    \A i \in 1..Len(raised) :
        raised[i][1] = "getToolPolicy" =>
            LET e == raised[i][2]
            IN  IF e.message = NotInitialized
                THEN /\ decodedPolicy = NoPolicy
                     /\ ~Called("validateParamsAgainstPolicy")
                     /\ pc \in {"validate", "execute", "interpret", "Done"}
                     /\ pc = "Done" => Called("executeAction")
                ELSE /\ ~Called("executeAction")
                     /\ pc = "Done"
                     /\ outcome.kind = "thrown"
                     /\ outcome.errType = e.type
                     /\ outcome.reason = <<e.message>>

\* C10 amended: a policy-read failure that is an Error with message "Tool
\* policy manager not initialized" is swallowed (decodedPolicy stays null, no
\* validation, the pipeline goes on to execution); any other policy-read
\* failure prevents execution and is thrown again to the boundary, which
\* returns {success: false, reason: message} for a LitAgentError and throws a
\* ToolExecutionFailed wrapping it otherwise.
C10_ReadFailureSwallowedOrConverted ==
    \A i \in 1..Len(raised) :
        raised[i][1] = "getToolPolicy" =>
            LET e == raised[i][2]
            IN  IF e.isError /\ e.message = NotInitialized
                THEN /\ decodedPolicy = NoPolicy
                     /\ ~Called("validateParamsAgainstPolicy")
                     /\ pc \in {"validate", "execute", "interpret", "Done"}
                     /\ pc = "Done" => Called("executeAction")
                ELSE /\ ~Called("executeAction")
                     /\ pc = "Done"
                     /\ e.tagged => outcome = Returned(FALSE, <<e.message>>, FALSE)
                     /\ ~e.tagged =>
                           outcome = Thrown("TOOL_EXECUTION_FAILED",
                                            IF e.isError THEN e.message
                                            ELSE "Failed to execute tool", e)

\* C10 witness: the read threw the "not initialized" Error, execution was
\* dispatched with no validation, and the invocation returned success.
C10_Witness ==
    /\ pc = "Done"
    /\ raised = <<<<"getToolPolicy", PlainError(NotInitialized)>>>>
    /\ Called("executeAction")
    /\ ~Called("validateParamsAgainstPolicy")
    /\ outcome.kind = "returned" /\ outcome.success

\* executeAction returned and its raw result was interpreted (lines 183-229)
Interpreted == pc = "Done" /\ outcome.hasResult

\* index of the first "Error:" marker of the logs, 0 when there is none
RECURSIVE FirstMarker(_, _)
FirstMarker(logs, i) ==
    IF i > Len(logs) THEN 0
    ELSE IF logs[i] = "Error:" THEN i
    ELSE FirstMarker(logs, i + 1)

\* the response of the precedence example:
\* {"status":"error","error":"bad input","details":{"reason":"x","code":42}}
ExampleResponse ==
    Response("json", "error", Field("bad input", TRUE), TRUE,
             Field("x", TRUE), Field("42", TRUE), Absent)

\* C11: result interpretation has a fixed precedence.  A response that parses
\* with status "error" gives a returned failure whose reason is built from
\* its error and details fields, whatever the logs hold (the example response
\* gives "bad input\nReason: x\nCode: 42"); a "Lit Action error: ..." reason
\* is returned only when the response is no structured error; success is
\* returned only when the response is no structured error and the logs do not
\* contain "Error:".
C11_FixedPrecedence ==
    Interpreted =>
        /\ IsStructuredError(result.response) =>
              /\ outcome.kind = "returned" /\ ~outcome.success
              /\ outcome.reason = ErrorMessage(result.response)
        /\ result.response = ExampleResponse =>
              outcome.reason = <<"bad input", "\nReason: ", "x", "\nCode: ", "42">>
        /\ (outcome.reason # <<>> /\ Head(outcome.reason) = "Lit Action error: ") =>
              ~IsStructuredError(result.response)
        /\ outcome.success =>
              /\ ~IsStructuredError(result.response)
              /\ ~LogsIncludeMarker(result.logs)

\* C12: when the response is no structured error and the logs contain
\* "Error:", executeTool returns a failure whose reason is "Lit Action error: "
\* followed by the trimmed text between the marker and the next newline, also
\* when the marker is followed at once by a newline or ends the logs.
C12_MarkerAlwaysFails ==
    (/\ Interpreted
     /\ ~IsStructuredError(result.response)
     /\ LogsIncludeMarker(result.logs))
    => /\ outcome.kind = "returned" /\ ~outcome.success
       /\ outcome.reason =
             <<"Lit Action error: ">>
                 \o Trim(CaptureFrom(result.logs, FirstMarker(result.logs, 1) + 1))

CountCalls(c) == Cardinality({i \in 1..Len(calls) : calls[i] = c})

CountRaised(c) == Cardinality({i \in 1..Len(raised) : raised[i][1] = c})

\* the invocation ended on a validation failure: every validation attempt
\* failed (the only one, or both) and nothing was raised after the last one,
\* so either there was no usable failedPolicyCallback, or it returned no
\* replacement, or the replacement failed validation too
ValidationGaveUp ==
    /\ pc = "Done"
    /\ raised # <<>>
    /\ raised[Len(raised)][1] = "validateParamsAgainstPolicy"
    /\ CountCalls("validateParamsAgainstPolicy") = CountRaised("validateParamsAgainstPolicy")

\* the message of the validation error last raised
LastValidationMessage ==
    LET e == raised[Len(raised)][2]
    IN  IF e.isError THEN e.message ELSE "Parameters do not meet policy requirements"

\* C13: when a policy was decoded and validation of the parameters fails for
\* good (no failedPolicyCallback, no replacement returned, or the replacement
\* fails too), executeTool returns {success: false, reason: the validation
\* error's message}, does not throw, and never dispatches execution.
C13_ValidationFailureIsReturned ==
    ValidationGaveUp =>
        /\ outcome = Returned(FALSE, <<LastValidationMessage>>, FALSE)
        /\ ~Called("executeAction")

\* C14: within one invocation failedPolicyCallback is invoked at most once,
\* and only right after a first validation failure, which it is handed;
\* the parameters are validated at most twice, the second time only on the
\* replacement the callback returned; nothing is retried after that.
C14_AtMostOneRetry ==
    /\ CountCalls("failedPolicyCallback") <= 1
    /\ CountCalls("validateParamsAgainstPolicy") <= 2
    /\ \A i \in 1..Len(calls) :
          calls[i] = "failedPolicyCallback" =>
              /\ i > 1 /\ calls[i - 1] = "validateParamsAgainstPolicy"
              /\ \E k \in 1..Len(raised) :
                    FirstValidationFailure(k) /\ raised[k][2] = pendingError
    /\ \A i \in 1..Len(calls) :
          (calls[i] = "validateParamsAgainstPolicy"
             /\ \E j \in 1..(i - 1) : calls[j] = "validateParamsAgainstPolicy") =>
              calls[i - 1] = "failedPolicyCallback"

\* C14 witness: the first validation failed, failedPolicyCallback returned a
\* replacement, the replacement passed the second validation and the tool ran.
C14_Witness ==
    /\ pc = "Done"
    /\ CountCalls("failedPolicyCallback") = 1
    /\ CountCalls("validateParamsAgainstPolicy") = 2
    /\ CountRaised("validateParamsAgainstPolicy") = 1
    /\ validatedParams # finalParams
    /\ Called("executeAction")

\* the stage of the pipeline a collaborator belongs to
StageOf(c) ==
    CASE c = "findTool" -> 1
      [] c \in {"handleToolPermission", "onPolicyRegistered"} -> 2
      [] c = "validateAndCollectParameters" -> 3
      [] c \in {"getToolPolicy", "decode"} -> 4
      [] c \in {"validateParamsAgainstPolicy", "failedPolicyCallback"} -> 5
      [] c = "executeAction" -> 6

\* the failure raised i-th ended its stage in failure: it was neither the
\* swallowed "not initialized" policy read nor a first validation failure
\* handed to failedPolicyCallback
StageFailed(i) ==
    /\ ~SwallowedRead(i)
    /\ ~(/\ FirstValidationFailure(i)
         /\ options.failedPolicyCallback
         /\ raised[i][2].isError)

\* C15: the stages run in the order tool resolution, permission handling,
\* parameter collection, policy fetch, parameter validation, execution; no
\* stage is skipped except validation (no policy), each is invoked at most
\* once (validation at most twice); execution is dispatched only after tool
\* resolution succeeded and permission handling completed without denial or
\* registration failure; a stage that fails ends the invocation and no
\* later stage runs.
C15_StagesInOrder ==
    /\ \A i \in 1..Len(calls) : \A j \in i..Len(calls) :
          StageOf(calls[i]) <= StageOf(calls[j])
    /\ calls # <<>> => calls[1] = "findTool"
    /\ \A i \in 1..(Len(calls) - 1) :
          \/ StageOf(calls[i + 1]) - StageOf(calls[i]) \in {0, 1}
          \/ StageOf(calls[i]) = 4 /\ StageOf(calls[i + 1]) = 6 /\ decodedPolicy = NoPolicy
    /\ \A c \in {"findTool", "handleToolPermission", "onPolicyRegistered",
                 "validateAndCollectParameters", "getToolPolicy", "decode",
                 "failedPolicyCallback", "executeAction"} : CountCalls(c) <= 1
    /\ CountCalls("validateParamsAgainstPolicy") <= 2
    /\ Called("executeAction") =>
          /\ CountRaised("findTool") = 0
          /\ permission \in {"permitted", "registered"}
          /\ CountRaised("handleToolPermission") = 0
          /\ ~ValidationGaveUp
    /\ \A i \in 1..Len(raised) :
          StageFailed(i) =>
              /\ pc = "Done"
              /\ i = Len(raised)
              /\ StageOf(calls[Len(calls)]) = StageOf(raised[i][1])

\* C15 witness: a whole run: the policy was registered and notified, the
\* parameters were validated twice, the tool was executed and succeeded.
C15_Witness ==
    /\ pc = "Done"
    /\ permission = "registered"
    /\ CountCalls("validateParamsAgainstPolicy") = 2
    /\ Len(calls) = 9
    /\ calls[Len(calls)] = "executeAction"
    /\ outcome.success

\* C20: when registering the new policy fails after the user accepted
\* (handleToolPermission throws a TOOL_POLICY_REGISTRATION_FAILED error),
\* executeTool returns {success: false, reason} without throwing,
\* onPolicyRegistered is not invoked and execution is never dispatched;
\* onPolicyRegistered is invoked at most once, only when it was supplied and
\* handleToolPermission returned the transaction hash of a registration.
C20_RegistrationFailureReturned ==
    /\ \A i \in 1..Len(raised) :
          (/\ raised[i][1] = "handleToolPermission"
           /\ raised[i][2].tagged
           /\ raised[i][2].type = "TOOL_POLICY_REGISTRATION_FAILED") =>
              /\ pc = "Done"
              /\ outcome = Returned(FALSE, <<raised[i][2].message>>, FALSE)
              /\ calls = <<"findTool", "handleToolPermission">>
    /\ permission = "registrationFailed" =>
          raised = <<<<"handleToolPermission",
                       LitAgentError("TOOL_POLICY_REGISTRATION_FAILED",
                                     "Failed to register policy")>>>>
    /\ CountCalls("onPolicyRegistered") <= 1
    /\ Called("onPolicyRegistered") =>
          /\ permission = "registered"
          /\ options.onPolicyRegistered
          /\ CountRaised("handleToolPermission") = 0

\* C20 witness: the caller supplied onPolicyRegistered, the user accepted and
\* the registration failed.
C20_Witness ==
    /\ permission = "registrationFailed"
    /\ options.onPolicyRegistered
    /\ pc = "Done"
    /\ ~outcome.success /\ outcome.kind = "returned"

\* the policy read of this invocation returned empty policy bytes: the read
\* was made, it did not throw, and nothing was decoded
EmptyPolicyRead ==
    /\ Called("getToolPolicy")
    /\ ~Called("decode")
    /\ \A i \in 1..Len(raised) : raised[i][1] # "getToolPolicy"

\* C22: when the policy read returns empty policy bytes, nothing is decoded,
\* the parameters are not validated, failedPolicyCallback is never invoked,
\* and the invocation goes on to dispatch execution with the collected
\* parameters: it cannot end before executeAction was called.
C22_EmptyPolicyMeansNoConstraint ==
    EmptyPolicyRead =>
        /\ decodedPolicy = NoPolicy
        /\ ~Called("validateParamsAgainstPolicy")
        /\ ~Called("failedPolicyCallback")
        /\ pc \in {"validate", "execute", "interpret", "Done"}
        /\ pc \in {"interpret", "Done"} =>
              /\ Called("executeAction")
              /\ executedParams = finalParams
              /\ finalParams \in Params

\* C22 witness: an empty policy was read and execution was dispatched with
\* parameters that the policy allowP1 would have refused.
C22_Witness ==
    /\ EmptyPolicyRead
    /\ Called("executeAction")
    /\ executedParams = "p2"
    /\ outcome.kind = "returned"
    /\ outcome.success

\* the pieces a details field adds to the reason if it is appended whenever
\* it exists
WhenPresent(resp, field, label) ==
    IF resp.hasDetails /\ field.present THEN <<label, field.text>> ELSE <<>>

\* C27: for a response that parses with status "error", the returned failure
\* carries the raw result and its reason is the error field, then
\* "\nReason: " and details.reason whenever details.reason exists, then
\* "\nCode: " and details.code whenever details.code exists (0 included),
\* then "\nDetails: " and details.error.message whenever that exists.
C27_DetailsAppendedWhenPresent ==
    (Interpreted /\ IsStructuredError(result.response)) =>
        LET resp == result.response
        IN  /\ outcome.kind = "returned"
            /\ ~outcome.success
            /\ outcome.hasResult
            /\ outcome.reason =
                  <<resp.error.text>>
                    \o WhenPresent(resp, resp.reason, "\nReason: ")
                    \o WhenPresent(resp, resp.code, "\nCode: ")
                    \o WhenPresent(resp, resp.emsg, "\nDetails: ")

\* position of executeAction among the calls, 0 when it was not dispatched
DispatchIndex ==
    IF Called("executeAction")
    THEN CHOOSE i \in 1..Len(calls) : calls[i] = "executeAction"
    ELSE 0

\* C28: whenever execution is dispatched while a policy was decoded, the call
\* right before the dispatch is a validation that did not throw, made on the
\* parameters that are executed: the collected parameters when they passed
\* the first validation, otherwise the replacement failedPolicyCallback
\* returned, which passed the second; the policy allows what is executed.
C28_OnlyValidatedParamsExecuted ==
    (Called("executeAction") /\ HasPolicy(decodedPolicy)) =>
        /\ DispatchIndex > 1
        /\ calls[DispatchIndex - 1] = "validateParamsAgainstPolicy"
        /\ CountCalls("validateParamsAgainstPolicy")
              = CountRaised("validateParamsAgainstPolicy") + 1
        /\ \A k \in 1..Len(raised) :
              raised[k][1] = "validateParamsAgainstPolicy" => FirstValidationFailure(k)
        /\ executedParams = validatedParams
        /\ executedParams \in Params
        /\ PolicyAllows(decodedPolicy, executedParams)
        /\ CountCalls("validateParamsAgainstPolicy") = 1 => executedParams = finalParams
        /\ CountCalls("validateParamsAgainstPolicy") = 2 =>
              /\ Called("failedPolicyCallback")
              /\ ~PolicyAllows(decodedPolicy, finalParams)

\* C28 witness: the collected parameters failed validation against the
\* decoded policy, failedPolicyCallback returned a replacement that passed,
\* and the replacement was executed.
C28_Witness ==
    /\ decodedPolicy = "allowP1"
    /\ finalParams = "p2"
    /\ executedParams = "p1"
    /\ Called("failedPolicyCallback")
    /\ Called("executeAction")
    /\ pc = "Done"
    /\ outcome.success

(***************************************************************************)
(* Part III, properties of setToolPolicy and removeToolPolicy.             *)
(***************************************************************************)
\* C16 as stated: a failure at any step of setToolPolicy or removeToolPolicy
\* is thrown again as one TOOL_POLICY_REGISTRATION_FAILED error that carries
\* the tool id, the policy payload and the underlying cause; the raw error
\* never reaches the caller.
C16_FailureCarriesPolicy ==
    /\ (txCause # <<>>) <=> (txOutcome.kind = "thrown")
    /\ txOutcome.kind = "thrown" =>
          /\ txOutcome.type = "TOOL_POLICY_REGISTRATION_FAILED"
          /\ txOutcome.context.ipfsCid = <<txCall.ipfsCid>>
          /\ Len(txOutcome.context.policy) = 1
          /\ txOutcome.context.error = <<txCause[2]>>

\* C16 amended: a failure at any step ends the call at once with one thrown
\* TOOL_POLICY_REGISTRATION_FAILED error that carries the tool id and the
\* underlying cause, never with the raw error; the error of setToolPolicy
\* has message "Failed to register policy" and carries the policy payload,
\* the error of removeToolPolicy has message "Failed to remove policy" and
\* carries no policy.
C16_FailureWrapped ==
    /\ (txCause # <<>>) <=> (txOutcome.kind = "thrown")
    /\ txOutcome.kind = "thrown" =>
          /\ txPc = "Done"
          /\ txOutcome.type = "TOOL_POLICY_REGISTRATION_FAILED"
          /\ txOutcome.context.ipfsCid = <<txCall.ipfsCid>>
          /\ txOutcome.context.error = <<txCause[2]>>
          /\ txCall.op = "set" =>
                /\ txOutcome.message = "Failed to register policy"
                /\ txOutcome.context.policy = txCall.policy
                /\ Len(txCall.policy) = 1
          /\ txCall.op = "remove" =>
                /\ txOutcome.message = "Failed to remove policy"
                /\ txOutcome.context.policy = <<>>

\* C16 witness: the broadcast of setToolPolicy failed with an error that is
\* itself a LitAgentError, after gas was estimated.
C16_Witness ==
    /\ txCall.op = "set"
    /\ gasLimit # <<>>
    /\ txCause = <<"send", LitAgentError("TOOL_PERMISSION_FAILED", "boom")>>
    /\ txOutcome.kind = "thrown"

\* C17: the gas limit put on the transaction is (estimate * 120) div 100,
\* truncated: the one integer l with 100 l <= 120 estimate < 100 (l + 1);
\* 1000 gives 1200 and 1001 gives 1201; it is never below the estimate.
C17_GasLimitIsTruncated120Percent ==
    /\ (gasLimit # <<>>) <=> (gasEstimate # <<>>)
    /\ gasLimit # <<>> =>
          LET e == gasEstimate[1]
              l == gasLimit[1]
          IN  /\ 100 * l <= 120 * e
              /\ 120 * e < 100 * (l + 1)
              /\ l >= e
              /\ e = 1000 => l = 1200
              /\ e = 1001 => l = 1201

\* C17 witness: removeToolPolicy was sent with estimate 1001 and limit 1201.
C17_Witness ==
    /\ txCall.op = "remove"
    /\ gasEstimate = <<1001>>
    /\ gasLimit = <<1201>>
    /\ txOutcome = TxSent

\* the names of the external calls made so far, in the order they were made
TraceCalls == [i \in 1..Len(txTrace) |-> txTrace[i].call]

SubmissionOrder == <<"estimateGas", "signCallback", "sendTransaction">>

\* the steps that come before the broadcast
BeforeBroadcast == {"encodePolicy", "encodeCall", "estimateGas", "sign", "serialize"}

\* C21: one submission calls estimateGas, then signCallback, then
\* sendTransaction, each at most once and in that order; nothing is broadcast
\* when an earlier step failed; a failure ends the submission with one thrown
\* error and no further call; the transaction broadcast is the finalized
\* transaction (to, data, gasLimit) whose digest was handed to signCallback,
\* with the returned signature attached.
C21_SubmissionOrderedOnceAndSigned ==
    /\ Len(txTrace) <= 3
    /\ \A i \in 1..Len(txTrace) : TraceCalls[i] = SubmissionOrder[i]
    /\ \A i \in 1..Len(txTrace) : i < Len(txTrace) => txTrace[i].ok
    /\ txCause # <<>> =>
          /\ txPc = "Done"
          /\ txOutcome.kind = "thrown"
          /\ txOutcome.context.error = <<txCause[2]>>
          /\ txCause[1] \in BeforeBroadcast => \A i \in 1..Len(txTrace) : TraceCalls[i] # "sendTransaction"
          /\ txCause[1] = "send" => ~txTrace[3].ok
    /\ Len(txTrace) = 3 =>
          LET signed == txTrace[2]
              sent   == txTrace[3]
          IN  /\ signed.arg.hash = "keccak256"
              /\ signed.arg.of.to = "contract"
              /\ signed.arg.of.data.ipfsCid = txCall.ipfsCid
              /\ signed.arg.of.data.policy = txCall.policy
              /\ signed.arg.of.gasLimit = gasLimit
              /\ signed.arg.of.signature = <<>>
              /\ sent.arg.signature = signed.ret
              /\ [sent.arg EXCEPT !.signature = <<>>] = signed.arg.of

\* C21 witness: setToolPolicy estimated 1001, had the digest signed and the
\* broadcast threw: three calls were made and the failure was reported.
C21_Witness ==
    /\ txCall.op = "set"
    /\ gasEstimate = <<1001>>
    /\ Len(txTrace) = 3
    /\ txTrace[3].call = "sendTransaction"
    /\ txTrace[3].arg.gasLimit = <<1201>>
    /\ txCause # <<>>
    /\ txCause[1] = "send"

(***************************************************************************)
(* Part IV, properties of the admin handlers.                              *)
(***************************************************************************)
CliShown(ev) == \E i \in 1..Len(cliEvents) : cliEvents[i] = ev

\* no tool is left in any of the three maps of registeredTools
NothingListed == \A t \in CliTools : cliRegistered.tools[t].category = "absent"

\* C18 as stated: when the permitted-tool set of the chosen delegatee is
\* empty, the unpermit flow fails with the "no permitted tools" condition
\* before any prompt or selection was shown, and unpermitToolForDelegatee is
\* not called.
C18_NoPromptBeforeFailure ==
    (cliFlow = "unpermit" /\ cliPermitted = <<{}>>) =>
        /\ cliOutcome.errType = UnpermitNoPermittedTools
        /\ ~CliShown("promptDelegatee")
        /\ ~CliShown("promptTool")
        /\ ~CliShown("unpermitToolForDelegatee")

\* C18 amended: the delegatee is selected in a prompt before their permitted
\* tools are queried; when that set is empty, or holds no registered tool, the
\* flow ends at once with the "no permitted tools" condition (logged, not
\* thrown), the tool selection is not shown and unpermitToolForDelegatee is
\* not called; when no tool is registered at all the flow ends with that
\* condition before any prompt.
C18_NoToolPromptAfterFailure ==
    cliFlow = "unpermit" =>
        /\ cliPermitted = <<{}>> => NothingListed
        /\ (cliPermitted # <<>> /\ NothingListed) =>
              /\ cliPc = "Done"
              /\ cliOutcome =
                    CliReturned(AwCliError(UnpermitNoPermittedTools,
                                           "No permitted tools found for this delegatee."),
                                "No permitted tools found.")
              /\ cliEvents = <<"getRegisteredTools", "getDelegatees", "promptDelegatee",
                               "getPermittedTools", "log">>
        /\ (cliPermitted = <<>> /\ cliOutcome.errType = UnpermitNoPermittedTools) =>
              /\ cliOutcome.kind = "returned"
              /\ cliEvents = <<"getRegisteredTools", "log">>

\* C18 witness: tools were registered, the user selected a delegatee, and
\* that delegatee had no permitted tool.
C18_Witness ==
    /\ cliFlow = "unpermit"
    /\ cliPc = "Done"
    /\ cliDelegatee = "d1"
    /\ cliPermitted = <<{}>>
    /\ CliShown("promptDelegatee")

\* the tools of the three maps of a RegisteredToolsResult
RegisteredIn(reg) ==
    IF reg.isNull THEN {} ELSE {t \in CliTools : reg.tools[t].category # "absent"}

\* the unpermit flow obtained registeredTools
UnpermitFetched ==
    /\ cliFlow = "unpermit"
    /\ CliShown("getRegisteredTools")
    /\ ~(cliOutcome.kind = "thrown" /\ Len(cliEvents) = 1)

\* the handler ended on the "no permitted tools" condition, which its catch
\* logs, and never called unpermitToolForDelegatee
EndedNoPermittedTools ==
    /\ cliPc = "Done"
    /\ cliOutcome.kind = "returned"
    /\ cliOutcome.errType = UnpermitNoPermittedTools
    /\ cliOutcome.logged = "No permitted tools found."
    /\ ~CliShown("promptTool")
    /\ ~CliShown("unpermitToolForDelegatee")

\* C25: whenever handleUnpermitToolForDelegatee calls
\* unpermitToolForDelegatee, the tool is one getRegisteredTools returned for
\* the PKP and one the permission query returned for the delegatee selected
\* before that query; when no tool is registered, or no registered tool is
\* permitted for the delegatee, the flow ends with the "no permitted tools"
\* condition and the call is not made.
C25_UnpermitOnlyRegisteredAndPermitted ==
    cliFlow = "unpermit" =>
        /\ CliShown("unpermitToolForDelegatee") =>
              /\ cliTool \in RegisteredIn(cliFetched)
              /\ cliPermitted # <<>>
              /\ cliTool \in cliPermitted[1]
              /\ cliDelegatee \in CliDelegatees
              /\ \E i, j \in 1..Len(cliEvents) :
                    /\ i < j
                    /\ cliEvents[i] = "promptDelegatee"
                    /\ cliEvents[j] = "getPermittedTools"
        /\ (UnpermitFetched /\ RegisteredIn(cliFetched) = {}) =>
              /\ EndedNoPermittedTools
              /\ cliPermitted = <<>>
        /\ (cliPermitted # <<>> /\ RegisteredIn(cliFetched) \cap cliPermitted[1] = {}) =>
              EndedNoPermittedTools

\* C25 witness: two tools are registered, one of them permitted for the
\* selected delegatee, and that one was unpermitted.
C25_Witness ==
    /\ cliFlow = "unpermit"
    /\ RegisteredIn(cliFetched) = {"t1", "t2"}
    /\ cliPermitted = <<{"t1"}>>
    /\ cliTool = "t1"
    /\ cliDelegatee = "d2"
    /\ CliShown("unpermitToolForDelegatee")
    /\ cliOutcome = CliSucceeded("Tool unpermitted successfully.")

\* the disable flow obtained registeredTools
DisableFetched ==
    /\ cliFlow = "disable"
    /\ CliShown("getRegisteredTools")
    /\ ~(cliOutcome.kind = "thrown" /\ Len(cliEvents) = 1)

\* (1) no tool has a policy
NoToolsWithPolicies ==
    /\ DisableFetched
    /\ \/ cliRegistered.isNull
       \/ \A t \in CliTools : cliRegistered.tools[t].category # "toolsWithPolicies"

\* (2) tools have policies, none of them an enabled one
NoToolsWithEnabledPolicies ==
    /\ DisableFetched
    /\ ~NoToolsWithPolicies
    /\ \A t \in CliTools :
          cliRegistered.tools[t].category = "toolsWithPolicies" =>
              cliRegistered.tools[t].enabledFor = {}

\* (3) a tool was selected and none of its delegatees has an enabled policy
NoDelegateesWithEnabledPolicies ==
    /\ DisableFetched
    /\ cliTool # ""
    /\ \A d \in cliRegistered.tools[cliTool].delegatees :
          d \notin cliRegistered.tools[cliTool].enabledFor

\* C19: the disable flow fails with three conditions an observer can tell
\* apart by the error kind and the reported outcome: (1) no tools have
\* policies, (2) none has an enabled policy, (3) after the tool selection, no
\* delegatee of the selected tool has an enabled policy; in each case
\* disableToolPolicyForDelegatee is not called.
C19_ThreeDistinctFailures ==
    /\ NoToolsWithPolicies =>
          /\ cliPc = "Done"
          /\ cliOutcome.errType = DisableNoToolsFound
          /\ cliOutcome.logged = "No permitted tools with policies found."
          /\ ~CliShown("disableToolPolicyForDelegatee")
    /\ NoToolsWithEnabledPolicies =>
          /\ cliPc = "Done"
          /\ cliOutcome.errType = DisableNoEnabledTools
          /\ cliOutcome.logged = "No tools with enabled policies found."
          /\ ~CliShown("disableToolPolicyForDelegatee")
    /\ NoDelegateesWithEnabledPolicies =>
          /\ cliPc = "Done"
          /\ cliOutcome.errType \notin {"none", DisableNoToolsFound, DisableNoEnabledTools}
          /\ cliOutcome.logged \notin {"", "No permitted tools with policies found.",
                                       "No tools with enabled policies found."}
          /\ ~CliShown("disableToolPolicyForDelegatee")

\* the position of the first event ev, 0 when it was not shown
FirstShown(ev) ==
    IF CliShown(ev) THEN CHOOSE i \in 1..Len(cliEvents) :
                           cliEvents[i] = ev /\ \A j \in 1..(i - 1) : cliEvents[j] # ev
    ELSE 0

\* C26: whenever handleDisableToolPolicy calls disableToolPolicyForDelegatee,
\* the tool is one of toolsWithPolicies with at least one enabled delegatee
\* policy, the chosen delegatee is a delegatee of that tool whose policy for
\* it is enabled, and the tool was selected before the delegatee.
C26_DisableOnlyEnabled ==
    (cliFlow = "disable" /\ CliShown("disableToolPolicyForDelegatee")) =>
        /\ cliTool \in CliTools
        /\ cliFetched.tools[cliTool].category = "toolsWithPolicies"
        /\ cliFetched.tools[cliTool].enabledFor # {}
        /\ cliDelegatee \in cliFetched.tools[cliTool].delegatees
        /\ cliDelegatee \in cliFetched.tools[cliTool].enabledFor
        /\ 0 < FirstShown("promptTool")
        /\ FirstShown("promptTool") < FirstShown("promptDelegatee")
        /\ FirstShown("promptDelegatee") < FirstShown("disableToolPolicyForDelegatee")

\* C26 witness: the selected tool has two delegatees, one of them with an
\* enabled policy, and the policy was disabled for that one; the other tool
\* has a policy that is not enabled.
C26_Witness ==
    /\ cliFlow = "disable"
    /\ CliShown("disableToolPolicyForDelegatee")
    /\ cliTool = "t1"
    /\ cliFetched.tools["t1"].delegatees = {"d1", "d2"}
    /\ cliFetched.tools["t1"].enabledFor = {"d2"}
    /\ cliFetched.tools["t2"].category = "toolsWithPolicies"
    /\ cliFetched.tools["t2"].enabledFor = {}
    /\ cliDelegatee = "d2"

====
